---- MODULE Spec2Model ----
(***************************************************************************)
(* Muninn: the policy engine (src/core/policy-engine.ts) and the Telegram  *)
(* approval manager (telegram/approval.ts).                                *)
(*                                                                         *)
(* JavaScript strings are modelled as sequences of one-character strings,  *)
(* so that String.includes, String.startsWith, String.trim, String.split   *)
(* and the regular expressions of the source are computed character by     *)
(* character.  "Str" below always means such a sequence.                   *)
(***************************************************************************)
EXTENDS Integers, Sequences, FiniteSets, TLC

VARIABLES
    config,               \* PolicyEngine.config (PolicyConfig)
    resolvedAllowedDirs,  \* PolicyEngine.resolvedAllowedDirs
    taskMode,             \* PolicyEngine.taskMode (Null or a record)
    symlinks,             \* the file system: symbolic links, link path -> target
    pc,                   \* the caller of the policy engine: "idle" | "returned"
    call,                 \* the evaluate / evaluateForTask call that returned last
    decision              \* the PolicyDecision it returned

VARIABLES
    bot,                  \* ApprovalManager.bot: TRUE once setBot has connected one
    allowedUsers,         \* ApprovalManager.allowedUsers (a sequence of user ids)
    pending,              \* ApprovalManager.pending: its entries in insertion order
    timers,               \* ids whose setTimeout callback has not run yet
    now,                  \* Date.now(), in ticks
    calls,                \* per requestApproval call: its promise and what settled it
    nCalls,               \* number of requestApproval calls made so far
    answer                \* the callback handler's answerCallbackQuery in flight

VARIABLES
    currentTask,          \* TaskEngine.currentTask: 0 for null, or the plan tracked
    plans,                \* the TaskPlan objects built so far, by number
    nPlans,               \* number of plans built so far
    runs,                 \* the activations of executeTask: where each one stands
    nRuns,                \* number of executeTask calls that found their plan
    toolExecutors,        \* TaskEngine.toolExecutors: the names registered
    onProgress,           \* TaskEngine.onProgress is set
    onScreenshot          \* TaskEngine.onScreenshot is set

VARIABLES
    auditFile,            \* the content of the audit log file, as characters
    auditCalls,           \* the audit calls made so far: the entry and how the call ended
    inv,                  \* the tool wrapper invocation in progress, or the last one
    nInv                  \* number of wrapper invocations so far

VARIABLES
    retry,                \* the retryWithBackoff call: its options, locals and outcome
    limiter               \* the RateLimiter object, the clock and the last canRequest result

policyVars == <<config, resolvedAllowedDirs, taskMode, symlinks, pc, call, decision>>

approvalVars == <<bot, allowedUsers, pending, timers, now, calls, nCalls, answer>>

taskVars ==
    <<currentTask, plans, nPlans, runs, nRuns, toolExecutors, onProgress, onScreenshot>>

toolVars == <<auditFile, auditCalls, inv, nInv>>

errVars == <<retry, limiter>>

vars == <<policyVars, approvalVars, taskVars, toolVars, errVars>>

Null == "null"

-----------------------------------------------------------------------------
(* String primitives of the JavaScript runtime                             *)

\* String.prototype.startsWith
StartsWith(s, p) ==
    /\ Len(p) <= Len(s)
    /\ SubSeq(s, 1, Len(p)) = p

\* String.prototype.endsWith / a regular expression anchored with $
EndsWith(s, p) ==
    /\ Len(p) <= Len(s)
    /\ SubSeq(s, Len(s) - Len(p) + 1, Len(s)) = p

\* String.prototype.includes
Includes(s, p) ==
    \E i \in 1..(Len(s) - Len(p) + 1) : SubSeq(s, i, i + Len(p) - 1) = p

\* the characters \s matches (those the inputs of the model use)
WhiteSpace == {" ", "\t", "\n"}

\* the characters \w matches
WordChars ==
    {"a","b","c","d","e","f","g","h","i","j","k","l","m","n","o","p","q","r",
     "s","t","u","v","w","x","y","z","A","B","C","D","E","F","G","H","I","J",
     "K","L","M","N","O","P","Q","R","S","T","U","V","W","X","Y","Z","0","1",
     "2","3","4","5","6","7","8","9","_"}

\* String.prototype.trim
RECURSIVE TrimStart(_)
TrimStart(s) ==
    IF s # <<>> /\ Head(s) \in WhiteSpace THEN TrimStart(Tail(s)) ELSE s

RECURSIVE TrimEnd(_)
TrimEnd(s) ==
    IF s # <<>> /\ s[Len(s)] \in WhiteSpace
    THEN TrimEnd(SubSeq(s, 1, Len(s) - 1))
    ELSE s

Trim(s) == TrimEnd(TrimStart(s))

\* String.prototype.split(sep) for a one-character separator: a sequence of Str
RECURSIVE SplitFrom(_, _, _)
SplitFrom(s, sep, cur) ==
    IF s = <<>> THEN <<cur>>
    ELSE IF Head(s) = sep THEN <<cur>> \o SplitFrom(Tail(s), sep, <<>>)
    ELSE SplitFrom(Tail(s), sep, Append(cur, Head(s)))

Split(s, sep) == SplitFrom(s, sep, <<>>)

\* String.prototype.lastIndexOf(ch), 0-based as in JavaScript, -1 when absent
LastIndexOf(s, ch) ==
    IF \E i \in 1..Len(s) : s[i] = ch
    THEN (CHOOSE i \in 1..Len(s) : s[i] = ch /\ \A j \in (i+1)..Len(s) : s[j] # ch) - 1
    ELSE -1

\* String.prototype.substring(start) with a 0-based start; a negative start is 0
Substring(s, start) ==
    LET from == IF start < 0 THEN 0 ELSE start
    IN SubSeq(s, from + 1, Len(s))

\* String.prototype.replace(pattern, by) with a string pattern: first occurrence
ReplaceFirst(s, p, by) ==
    IF Includes(s, p)
    THEN LET i == CHOOSE k \in 1..(Len(s) - Len(p) + 1) :
                     /\ SubSeq(s, k, k + Len(p) - 1) = p
                     /\ \A j \in 1..(k-1) : SubSeq(s, j, j + Len(p) - 1) # p
         IN SubSeq(s, 1, i - 1) \o by \o SubSeq(s, i + Len(p), Len(s))
    ELSE s

-----------------------------------------------------------------------------
(* The host: home directory, working directory, file system                *)

\* os.homedir()
HomeDir == <<"/","h">>

\* process.cwd()
Cwd == <<"/","w">>

\* the directories and files that exist (none of them a symbolic link)
RealNodes ==
    { <<"/","h">>, <<"/","h","/","D">>, <<"/","h","/","D","/","a",".","t","x","t">>, <<"/","h","/","D","/",".","e","n","v">>, <<"/","h","/","D","/",".","s","s","h">>,
      <<"/","h","/","D","/","s">>, <<"/","h","/","D","/","s","/","a",".","t","x","t">>,
      <<"/","h","/","D","2">>, <<"/","h","/","D","2","/","a",".","t","x","t">>,
      <<"/","h","/",".","m">>, <<"/","h","/",".","m","/","S",".","m","d">>,
      <<"/","o">>, <<"/","o","/","a",".","t","x","t">>, <<"/","e","t","c">>, <<"/","e","t","c","/","p","a","s","s","w","d">>, <<"/","w">> }

\* the symbolic links that can be planted: link path -> target
PlantableLinks == { <<<<"/","h","/","D","/","l">>, <<"/","o">>>> }

\* path.join of an absolute path's segments
RECURSIVE JoinSegs(_)
JoinSegs(segs) ==
    IF segs = <<>> THEN <<>> ELSE <<"/">> \o Head(segs) \o JoinSegs(Tail(segs))

AbsPath(segs) == IF segs = <<>> THEN <<"/">> ELSE JoinSegs(segs)

\* path.normalize and path.resolve: drop empty and "." segments, let ".." pop
RECURSIVE Canon(_, _)
Canon(done, rest) ==
    IF rest = <<>> THEN done
    ELSE LET seg == Head(rest) IN
         IF seg = <<>> \/ seg = <<".">> THEN Canon(done, Tail(rest))
         ELSE IF seg = <<".", ".">>
              THEN Canon(IF done = <<>> THEN <<>> ELSE SubSeq(done, 1, Len(done) - 1),
                         Tail(rest))
              ELSE Canon(Append(done, seg), Tail(rest))

\* resolve(normalize(p)): the absolute, normalised form of p
Resolve(p) ==
    LET base == IF p # <<>> /\ Head(p) = "/" THEN <<>> ELSE Split(Cwd, "/")
    IN AbsPath(Canon(<<>>, base \o Split(p, "/")))

\* the outcome "realpathSync throws" (ENOENT, ELOOP)
RealpathThrows == <<"THROWS">>

\* fs.realpathSync(p) for an absolute normalised p under the links given:
\* the path with every symbolic link on it replaced by its target, or RealpathThrows
\* when a component does not exist (realpathSync throws)
RECURSIVE RealWalk(_, _, _, _)
RealWalk(links, done, rest, fuel) ==
    IF rest = <<>> THEN AbsPath(done)
    ELSE LET next == AbsPath(Append(done, Head(rest))) IN
         IF \E l \in links : l[1] = next
         THEN IF fuel = 0 THEN RealpathThrows
              ELSE LET l == CHOOSE k \in links : k[1] = next
                   IN RealWalk(links, <<>>,
                               Canon(<<>>, Split(l[2], "/")) \o Tail(rest), fuel - 1)
         ELSE IF next \in RealNodes
              THEN RealWalk(links, Append(done, Head(rest)), Tail(rest), fuel)
              ELSE RealpathThrows

RealpathSync(links, p) ==
    RealWalk(links, <<>>, Canon(<<>>, Split(p, "/")), Cardinality(links) + 1)

\* String.prototype.toLowerCase
UpperLetters == <<"A","B","C","D","E","F","G","H","I","J","K","L","M","N","O","P","Q","R","S","T","U","V","W","X","Y","Z">>
LowerLetters == <<"a","b","c","d","e","f","g","h","i","j","k","l","m","n","o","p","q","r","s","t","u","v","w","x","y","z">>

LowerChar(c) ==
    IF \E i \in 1..26 : UpperLetters[i] = c
    THEN LowerLetters[CHOOSE i \in 1..26 : UpperLetters[i] = c]
    ELSE c

ToLowerCase(s) == [i \in 1..Len(s) |-> LowerChar(s[i])]

Digits == {"0","1","2","3","4","5","6","7","8","9"}
OctalDigits == {"0","1","2","3","4","5","6","7"}
HexDigits == Digits \cup {"a","b","c","d","e","f","A","B","C","D","E","F"}

\* the index of the first character of s that is in stops, or Len(s)+1
FirstOf(s, stops) ==
    IF \E i \in 1..Len(s) : s[i] \in stops
    THEN CHOOSE i \in 1..Len(s) : s[i] \in stops /\ \A j \in 1..(i-1) : s[j] \notin stops
    ELSE Len(s) + 1

\* the digits of the IPv4 number parser, by value
HexChars == <<"0","1","2","3","4","5","6","7","8","9","a","b","c","d","e","f">>

DigitValue(c) == (CHOOSE i \in 1..16 : HexChars[i] = c) - 1

\* acc * radix + digit on a number kept as four bytes, high byte first; fits
\* is FALSE once the number needs more than 32 bits
MulAdd(acc, radix, digit) ==
    LET v4 == (acc.bytes[4] * radix) + digit
        v3 == (acc.bytes[3] * radix) + (v4 \div 256)
        v2 == (acc.bytes[2] * radix) + (v3 \div 256)
        v1 == (acc.bytes[1] * radix) + (v2 \div 256)
    IN [ok |-> acc.ok, fits |-> acc.fits /\ v1 < 256,
        bytes |-> <<v1 % 256, v2 % 256, v3 % 256, v4 % 256>>]

\* the one element of a singleton: Only({ F(x) : x \in {e} }) is F(e) with e
\* computed once
Only(S) == CHOOSE x \in S : TRUE

RECURSIVE ReadDigits(_, _, _)
ReadDigits(digits, radix, acc) ==
    IF digits = <<>> THEN acc
    ELSE IF \A i \in 1..radix : HexChars[i] # Head(digits)
         THEN [ok |-> FALSE, fits |-> acc.fits, bytes |-> acc.bytes]
         ELSE Only({ ReadDigits(rest, radix, next) :
                        rest \in { Tail(digits) },
                        next \in { MulAdd(acc, radix, DigitValue(Head(digits))) } })

\* the URL standard's IPv4 number parser: 0x starts a hexadecimal number, a
\* leading 0 an octal one; it fails (ok = FALSE) on an empty part and on a
\* character that is not a digit of the radix
Ipv4Number(part) ==
    LET hex == Len(part) >= 2 /\ SubSeq(part, 1, 2) = <<"0","x">>
        octal == ~hex /\ Len(part) >= 2 /\ part[1] = "0"
    IN IF part = <<>> THEN [ok |-> FALSE, fits |-> TRUE, bytes |-> <<0, 0, 0, 0>>]
       ELSE ReadDigits(IF hex THEN SubSeq(part, 3, Len(part))
                       ELSE IF octal THEN Tail(part) ELSE part,
                       IF hex THEN 16 ELSE IF octal THEN 8 ELSE 10,
                       [ok |-> TRUE, fits |-> TRUE, bytes |-> <<0, 0, 0, 0>>])

\* the parts of a host between its dots, a trailing empty part dropped
HostParts(host) ==
    LET parts == Split(host, ".")
    IN IF parts[Len(parts)] = <<>> THEN SubSeq(parts, 1, Len(parts) - 1) ELSE parts

\* the URL standard's ends-in-a-number checker, on the parts of a host and
\* the numbers they parse to
EndsInNumber(parts, numbers) ==
    /\ parts # <<>>
    /\ \/ /\ parts[Len(parts)] # <<>>
          /\ \A i \in 1..Len(parts[Len(parts)]) : parts[Len(parts)][i] \in Digits
       \/ numbers[Len(parts)].ok

\* a byte in decimal
DecimalChars(b) ==
    IF b < 10 THEN <<HexChars[b + 1]>>
    ELSE IF b < 100 THEN <<HexChars[(b \div 10) + 1], HexChars[(b % 10) + 1]>>
    ELSE <<HexChars[(b \div 100) + 1], HexChars[((b \div 10) % 10) + 1], HexChars[(b % 10) + 1]>>

\* the j-th byte of the address: the parts before the last give one byte
\* each, the last part fills the remaining bytes
AddressByte(numbers, j) ==
    IF j < Len(numbers) THEN numbers[j].bytes[4] ELSE numbers[Len(numbers)].bytes[j]

\* the URL standard's IPv4 parser and serializer on the numbers of a host that
\* ends in a number: at most four parts, every part but the last below 256,
\* the last within the remaining bytes; the address in dotted decimal
Ipv4Host(numbers) ==
    IF \/ Len(numbers) > 4
       \/ \E k \in 1..Len(numbers) : ~numbers[k].ok \/ ~numbers[k].fits
       \/ \E k \in 1..(Len(numbers) - 1) : \E j \in 1..3 : numbers[k].bytes[j] # 0
       \/ \E j \in 1..(Len(numbers) - 1) : numbers[Len(numbers)].bytes[j] # 0
    THEN [ok |-> FALSE, hostname |-> <<>>]
    ELSE [ok |-> TRUE,
          hostname |-> DecimalChars(AddressByte(numbers, 1)) \o <<".">>
                       \o DecimalChars(AddressByte(numbers, 2)) \o <<".">>
                       \o DecimalChars(AddressByte(numbers, 3)) \o <<".">>
                       \o DecimalChars(AddressByte(numbers, 4))]

\* the host of a special scheme: an IPv4 address when it ends in a number
\* (not ok when that address is invalid), else the host itself
SpecialHost(host, parts, numbers) ==
    IF EndsInNumber(parts, numbers) THEN Ipv4Host(numbers)
    ELSE [ok |-> TRUE, hostname |-> host]

\* the host as the URL parser keeps it
ParsedHost(scheme, host) ==
    IF scheme \in {<<"h","t","t","p">>, <<"h","t","t","p","s">>, <<"f","t","p">>,
                   <<"w","s">>, <<"w","s","s">>, <<"f","i","l","e">>}
    THEN Only({ Only({ SpecialHost(host, parts, numbers) :
                          numbers \in { [k \in 1..Len(parts) |-> Ipv4Number(parts[k])] } }) :
                   parts \in { HostParts(host) } })
    ELSE [ok |-> TRUE, hostname |-> host]

\* a parsed URL with the host found
UrlWithHost(scheme, parsed) ==
    IF parsed.ok
    THEN [ok |-> TRUE, protocol |-> scheme \o <<":">>, hostname |-> parsed.hostname]
    ELSE [ok |-> FALSE, protocol |-> <<>>, hostname |-> <<>>]

\* new URL(url): [ok, protocol, hostname]; ok = FALSE when the constructor throws.
\* A scheme is letters up to the first ":"; the host of a "//" authority runs
\* to the first "/", "?" or "#", without user info and port, in lower case;
\* http and https need a non-empty host, file may have none.
\* A host that ends in a number is an IPv4 address: it is parsed as one and
\* written back in dotted decimal, and the constructor throws when it is not.
ParseUrl(url) ==
    LET colon  == FirstOf(url, {":"})
        scheme == ToLowerCase(SubSeq(url, 1, colon - 1))
        rest   == SubSeq(url, colon + 1, Len(url))
        hasAuthority == StartsWith(rest, <<"/", "/">>)
        after  == SubSeq(rest, 3, Len(rest))
        auth   == SubSeq(after, 1, FirstOf(after, {"/", "?", "#"}) - 1)
        noUser == IF "@" \in {auth[i] : i \in 1..Len(auth)}
                  THEN SubSeq(auth, LastIndexOf(auth, "@") + 2, Len(auth))
                  ELSE auth
        host   == IF noUser # <<>> /\ Head(noUser) = "["
                  THEN SubSeq(noUser, 1, FirstOf(noUser, {"]"}))
                  ELSE SubSeq(noUser, 1, FirstOf(noUser, {":"}) - 1)
        bad    == [ok |-> FALSE, protocol |-> <<>>, hostname |-> <<>>]
    IN IF colon > Len(url) \/ scheme = <<>>
          \/ \E i \in 1..Len(scheme) : scheme[i] \notin (WordChars \ (Digits \cup {"_"}))
       THEN bad
       ELSE IF ~hasAuthority
            THEN IF scheme \in {<<"h","t","t","p">>, <<"h","t","t","p","s">>} THEN bad
                 ELSE [ok |-> TRUE, protocol |-> scheme \o <<":">>, hostname |-> <<>>]
            ELSE IF host = <<>> /\ scheme \in {<<"h","t","t","p">>, <<"h","t","t","p","s">>} THEN bad
                 ELSE IF \E i \in 1..Len(host) : host[i] \in WhiteSpace THEN bad
                 ELSE Only({ UrlWithHost(scheme, ParsedHost(scheme, lower)) :
                               lower \in { ToLowerCase(host) } })

-----------------------------------------------------------------------------
(* PolicyEngine: static tables                                             *)

\* RiskLevel
RiskLevels == {"safe", "low", "medium", "high", "blocked"}

\* BLOCKED_PATH_PATTERNS: each regular expression as [kind, text], kind
\* "prefix" for /^text/, "suffix" for /text$/, "contains" for /text/
BLOCKED_PATH_PATTERNS ==
    << [kind |-> "prefix",   text |-> <<"/","e","t","c">>],
       [kind |-> "prefix",   text |-> <<"/","S","y","s","t","e","m">>],
       [kind |-> "prefix",   text |-> <<"/","u","s","r","/","b","i","n">>],
       [kind |-> "prefix",   text |-> <<"/","u","s","r","/","s","b","i","n">>],
       [kind |-> "prefix",   text |-> <<"/","s","b","i","n">>],
       [kind |-> "prefix",   text |-> <<"/","b","o","o","t">>],
       [kind |-> "prefix",   text |-> <<"/","p","r","o","c">>],
       [kind |-> "prefix",   text |-> <<"/","s","y","s">>],
       [kind |-> "prefix",   text |-> <<"/","d","e","v">>],
       [kind |-> "contains", text |-> <<".","s","s","h">>],
       [kind |-> "contains", text |-> <<".","g","n","u","p","g">>],
       [kind |-> "contains", text |-> <<".","a","w","s","/","c","r","e","d","e","n","t","i","a","l","s">>],
       [kind |-> "suffix",   text |-> <<".","e","n","v">>],
       [kind |-> "contains", text |-> <<".","e","n","v",".">>],
       [kind |-> "contains", text |-> <<"n","o","d","e","_","m","o","d","u","l","e","s">>],
       [kind |-> "contains", text |-> <<".","g","i","t","/">>] >>

BLOCKED_COMMANDS ==
    << <<"r","m"," ","-","r","f"," ","/">>, <<"r","m"," ","-","r","f"," ","~">>, <<"r","m"," ","-","r","f"," ","*">>, <<"s","u","d","o">>, <<"s","u"," ">>, <<"s","h","u","t","d","o","w","n">>,
       <<"r","e","b","o","o","t">>, <<"h","a","l","t">>, <<"p","o","w","e","r","o","f","f">>, <<"m","k","f","s">>, <<"d","d"," ","i","f","=">>, <<"f","o","r","m","a","t">>,
       <<":","(",")","{",":","|",":","&","}",";",":">>, <<"c","h","m","o","d"," ","-","R"," ","7","7","7">>, <<"c","h","o","w","n"," ","-","R">>, <<"p","a","s","s","w","d">>, <<"u","s","e","r","a","d","d">>,
       <<"u","s","e","r","d","e","l">>, <<"v","i","s","u","d","o">>, <<">"," ","/","d","e","v","/","s","d","a">>, <<"c","u","r","l"," ","|"," ","s","h">>, <<"c","u","r","l"," ","|"," ","b","a","s","h">>,
       <<"w","g","e","t"," ","|"," ","s","h">>, <<"w","g","e","t"," ","|"," ","b","a","s","h">>, <<"e","v","a","l","(">>, <<"n","c"," ","-","l">>, <<"n","c","a","t"," ","-","l">>,
       <<"p","y","t","h","o","n"," ","-","m"," ","h","t","t","p",".","s","e","r","v","e","r">>, <<"n","p","m"," ","p","u","b","l","i","s","h">>, <<"g","i","t"," ","p","u","s","h"," ","-","-","f","o","r","c","e">> >>

SAFE_READ_EXTENSIONS ==
    { <<".","t","x","t">>, <<".","m","d">>, <<".","j","s","o","n">>, <<".","y","a","m","l">>, <<".","y","m","l">>, <<".","t","o","m","l">>,
      <<".","t","s">>, <<".","j","s">>, <<".","p","y">>, <<".","r","s">>, <<".","g","o">>, <<".","j","a","v","a">>, <<".","c">>, <<".","h">>,
      <<".","c","s","s">>, <<".","h","t","m","l">>, <<".","s","v","g">>, <<".","x","m","l">>,
      <<".","c","s","v">>, <<".","t","s","v">>, <<".","l","o","g">>,
      <<".","s","h">>, <<".","b","a","s","h">>, <<".","z","s","h">>,
      <<".","c","o","n","f">>, <<".","c","f","g">>, <<".","i","n","i">> }

SAFE_COMMANDS ==
    << <<"l","s">>, <<"p","w","d">>, <<"w","h","o","a","m","i">>, <<"d","a","t","e">>, <<"c","a","l">>,
       <<"c","a","t">>, <<"h","e","a","d">>, <<"t","a","i","l">>, <<"w","c">>, <<"s","o","r","t">>, <<"u","n","i","q">>,
       <<"f","i","n","d">>, <<"g","r","e","p">>, <<"r","g">>, <<"f","d">>,
       <<"e","c","h","o">>, <<"p","r","i","n","t","f">>,
       <<"n","o","d","e"," ","-","-","v","e","r","s","i","o","n">>, <<"n","p","m"," ","-","-","v","e","r","s","i","o","n">>, <<"g","i","t"," ","-","-","v","e","r","s","i","o","n">>,
       <<"g","i","t"," ","s","t","a","t","u","s">>, <<"g","i","t"," ","l","o","g">>, <<"g","i","t"," ","d","i","f","f">>, <<"g","i","t"," ","b","r","a","n","c","h">>,
       <<"t","r","e","e">>,
       <<"d","f"," ","-","h">>, <<"d","u"," ","-","s","h">>,
       <<"u","n","a","m","e">> >>

\* the ten tool names evaluate's switch knows
KnownTools ==
    {"read_file", "write_file", "list_directory", "search_files", "move_file",
     "delete_file", "run_command", "fetch_page", "search_web", "download_file"}

\* property names every JavaScript object inherits from Object.prototype
ObjectPrototypeKeys == {"constructor", "toString", "valueOf", "hasOwnProperty"}

\* the data directory the engine is constructed with
DataDir == <<"/","h","/",".","m">>

-----------------------------------------------------------------------------
(* PolicyEngine: helpers                                                   *)

\* resolvePath: expand a leading ~, make absolute, follow symbolic links;
\* the unresolved absolute path when realpathSync throws
resolvePath(path) ==
    LET expanded == IF path # <<>> /\ Head(path) = "~"
                    THEN HomeDir \o Tail(path) ELSE path
        resolved == Resolve(expanded)
        real     == RealpathSync(symlinks, resolved)
    IN IF real = RealpathThrows THEN resolved ELSE real

MatchesPattern(pat, absPath) ==
    CASE pat.kind = "prefix"   -> StartsWith(absPath, pat.text)
      [] pat.kind = "suffix"   -> EndsWith(absPath, pat.text)
      [] pat.kind = "contains" -> Includes(absPath, pat.text)

\* isBlockedPath: some hardcoded pattern matches
isBlockedPath(absPath) ==
    \E i \in 1..Len(BLOCKED_PATH_PATTERNS) : MatchesPattern(BLOCKED_PATH_PATTERNS[i], absPath)

\* isInAllowedDir: the data directory or an allowed directory is a string prefix
isInAllowedDir(absPath) ==
    \/ StartsWith(absPath, Resolve(DataDir))
    \/ \E i \in 1..Len(resolvedAllowedDirs) : StartsWith(absPath, resolvedAllowedDirs[i])

\* isSuspiciousUrl
isSuspiciousUrl(url) ==
    LET parsed == ParseUrl(url)
        hostname == parsed.hostname
    IN IF ~parsed.ok THEN TRUE
       ELSE \/ parsed.protocol = <<"f","i","l","e",":">>
            \/ hostname \in {<<"l","o","c","a","l","h","o","s","t">>, <<"1","2","7",".","0",".","0",".","1">>, <<"0",".","0",".","0",".","0">>, <<"[",":",":","1","]">>, <<":",":","1">>}
            \/ (StartsWith(hostname, <<"[">>) /\ Includes(hostname, <<":",":">>))
            \/ StartsWith(hostname, <<"1","9","2",".","1","6","8",".">>)
            \/ StartsWith(hostname, <<"1","0",".">>)
            \/ StartsWith(hostname, <<"1","7","2",".">>)
            \/ StartsWith(hostname, <<"1","6","9",".","2","5","4",".">>)
            \/ (Len(hostname) >= 2 /\ hostname[1] = "0" /\ hostname[2] \in OctalDigits)
            \/ (/\ Len(hostname) >= 3
                /\ SubSeq(hostname, 1, 2) = <<"0","x">>
                /\ \A i \in 3..Len(hostname) : hostname[i] \in HexDigits)
            \/ (Len(hostname) >= 8 /\ \A i \in 1..Len(hostname) : hostname[i] \in Digits)
            \/ EndsWith(hostname, <<".","l","o","c","a","l">>)
            \/ EndsWith(hostname, <<".","i","n","t","e","r","n","a","l">>)

Decision(allowed, risk, reason, requiresApproval) ==
    [allowed |-> allowed, risk |-> risk, reason |-> <<reason>>,
     requiresApproval |-> requiresApproval]

Blocked(reason) == Decision(FALSE, "blocked", reason, FALSE)

\* decisionForRisk without its blocked branch: every override allows
decisionForRisk_NoBlockedBranch(risk) ==
    Decision(TRUE, risk, "Risk override", risk = "medium" \/ risk = "high")

\* decisionForRisk asking for approval at medium only
decisionForRisk_MediumOnly(risk) ==
    IF risk = "blocked"
    THEN Decision(FALSE, risk, "Blocked by risk override", FALSE)
    ELSE Decision(TRUE, risk, "Risk override", risk = "medium")

\* decisionForRisk
decisionForRisk(risk) ==
    IF risk = "blocked"
    THEN Decision(FALSE, risk, "Blocked by risk override", FALSE)
    ELSE Decision(TRUE, risk, "Risk override", risk = "medium" \/ risk = "high")

\* args.a || args.b for strings: the first that is not empty
Or(a, b) == IF a # <<>> THEN a ELSE b

Undefined == "undefined"

\* this.config.risk_overrides?.[toolName]: own entries first, then what a
\* plain object inherits from Object.prototype (a function, which is truthy)
OverrideLookup(toolName) ==
    IF ~config.risk_overrides.defined THEN Undefined
    ELSE IF \E e \in config.risk_overrides.entries : e[1] = toolName
         THEN (CHOOSE e \in config.risk_overrides.entries : e[1] = toolName)[2]
         ELSE IF toolName \in ObjectPrototypeKeys THEN "[Function]"
              ELSE Undefined

-----------------------------------------------------------------------------
(* PolicyEngine: risk classification                                       *)

evaluateReadFile(args) ==
    LET path == args.path
        resolved == resolvePath(path)
        ext == Substring(path, LastIndexOf(path, "."))
    IN IF isBlockedPath(resolved) THEN Blocked("Blocked path")
       ELSE IF ~isInAllowedDir(resolved) THEN Blocked("Path outside allowed directories")
       ELSE IF ext \in SAFE_READ_EXTENSIONS
            THEN Decision(TRUE, "safe", "Safe file read", FALSE)
            ELSE Decision(TRUE, "low", "Reading non-standard file type", FALSE)

evaluateWriteFile(args) ==
    LET resolved == resolvePath(args.path)
    IN IF isBlockedPath(resolved) THEN Blocked("Blocked path")
       ELSE IF ~isInAllowedDir(resolved) THEN Blocked("Path outside allowed directories")
       ELSE IF config.require_approval_for_writes
            THEN Decision(TRUE, "medium", "Writing file", TRUE)
            ELSE Decision(TRUE, "low", "Writing to allowed directory", FALSE)

evaluateListDirectory(args) ==
    LET resolved == resolvePath(args.path)
    IN IF isBlockedPath(resolved) THEN Blocked("Blocked path")
       ELSE IF ~isInAllowedDir(resolved) THEN Blocked("Path outside allowed directories")
       ELSE Decision(TRUE, "safe", "Directory listing", FALSE)

evaluateSearchFiles(args) ==
    LET dir == Or(args.directory, args.path)
        resolved == resolvePath(dir)
    IN IF ~isInAllowedDir(resolved) THEN Blocked("Search outside allowed directories")
       ELSE Decision(TRUE, "safe", "File search", FALSE)

evaluateMoveFile(args) ==
    LET from == resolvePath(args.from)
        to   == resolvePath(args.to)
    IN IF isBlockedPath(from) \/ isBlockedPath(to)
       THEN Blocked("Blocked path in move operation")
       ELSE IF ~isInAllowedDir(from) \/ ~isInAllowedDir(to)
            THEN Blocked("Move involves paths outside allowed directories")
            ELSE Decision(TRUE, "medium", "Moving", TRUE)

evaluateDeleteFile(args) ==
    LET resolved == resolvePath(args.path)
    IN IF isBlockedPath(resolved) THEN Blocked("Blocked path")
       ELSE IF ~isInAllowedDir(resolved) THEN Blocked("Path outside allowed directories")
       ELSE Decision(TRUE, "high", "Deleting", TRUE)

\* /\|\s*(sh|bash|zsh|eval)\b/
PipeToShell(command) ==
    \E i \in 1..Len(command) :
        /\ command[i] = "|"
        /\ LET r == TrimStart(SubSeq(command, i + 1, Len(command)))
           IN \E w \in {<<"s","h">>, <<"b","a","s","h">>, <<"z","s","h">>, <<"e","v","a","l">>} :
                 /\ StartsWith(r, w)
                 /\ (Len(r) = Len(w) \/ r[Len(w) + 1] \notin WordChars)

\* the backquote character (the one character this module cannot write literally)
Backquote == "<backquote>"

\* a backquote, one or more characters that are not backquotes, a backquote
BacktickSubstitution(command) ==
    \E i, j \in 1..Len(command) :
        /\ j > i + 1
        /\ command[i] = Backquote
        /\ command[j] = Backquote
        /\ \A k \in (i+1)..(j-1) : command[k] # Backquote

\* the shell injection pattern of evaluateRunCommand
ShellInjection(command) ==
    \/ PipeToShell(command)
    \/ BacktickSubstitution(command)
    \/ Includes(command, <<"$","(">>)
    \/ Includes(command, <<"$","{">>)

\* the safe-command test of evaluateRunCommand
IsSafeCommand(command) ==
    LET first == Split(command, " ")[1]
        parts == Split(first, "/")
        baseCommand == parts[Len(parts)]
    IN \E i \in 1..Len(SAFE_COMMANDS) :
          LET safe == SAFE_COMMANDS[i]
              safeBase == Split(safe, " ")[1]
          IN /\ baseCommand = safeBase
             /\ (safe = baseCommand \/ StartsWith(command, safe))

evaluateRunCommand(args) ==
    LET command == Trim(args.command)
    IN IF ~config.shell_enabled THEN Blocked("Shell access is disabled")
       ELSE IF \E i \in 1..Len(BLOCKED_COMMANDS) : Includes(command, BLOCKED_COMMANDS[i])
            THEN Blocked("Blocked command pattern")
       ELSE IF \E i \in 1..Len(config.blocked_commands) :
                  Includes(command, config.blocked_commands[i])
            THEN Blocked("Blocked by config")
       ELSE IF ShellInjection(command) THEN Blocked("Shell injection pattern detected")
       ELSE IF IsSafeCommand(command) THEN Decision(TRUE, "low", "Safe command", FALSE)
       ELSE Decision(TRUE, "medium", "Shell command", TRUE)

evaluateFetchPage(args) ==
    IF ~config.browser_enabled THEN Blocked("Browser access is disabled")
    ELSE IF isSuspiciousUrl(args.url) THEN Blocked("Suspicious URL")
    ELSE Decision(TRUE, "safe", "Fetching", FALSE)

evaluateSearchWeb(args) ==
    IF ~config.browser_enabled THEN Blocked("Browser access is disabled")
    ELSE Decision(TRUE, "safe", "Web search", FALSE)

evaluateDownloadFile(args) ==
    LET resolvedSave == resolvePath(args.savePath)
    IN IF ~config.browser_enabled THEN Blocked("Browser access is disabled")
       ELSE IF ~isInAllowedDir(resolvedSave)
            THEN Blocked("Download path outside allowed directories")
       ELSE IF isSuspiciousUrl(args.url) THEN Blocked("Suspicious URL")
       ELSE Decision(TRUE, "high", "Downloading", TRUE)

\* the switch of evaluate: the built-in classification
classify(toolName, args) ==
    CASE toolName = "read_file"      -> evaluateReadFile(args)
      [] toolName = "write_file"     -> evaluateWriteFile(args)
      [] toolName = "list_directory" -> evaluateListDirectory(args)
      [] toolName = "search_files"   -> evaluateSearchFiles(args)
      [] toolName = "move_file"      -> evaluateMoveFile(args)
      [] toolName = "delete_file"    -> evaluateDeleteFile(args)
      [] toolName = "run_command"    -> evaluateRunCommand(args)
      [] toolName = "fetch_page"     -> evaluateFetchPage(args)
      [] toolName = "search_web"     -> evaluateSearchWeb(args)
      [] toolName = "download_file"  -> evaluateDownloadFile(args)
      [] OTHER                       -> Blocked("Unknown tool")

\* evaluate: a configured risk override first, the switch otherwise
evaluate(toolName, args) ==
    IF OverrideLookup(toolName) # Undefined
    THEN decisionForRisk(OverrideLookup(toolName))
    ELSE classify(toolName, args)

\* the annotated decision with requiresApproval left as it was
AutoApproved_KeepsApproval(d) ==
    [d EXCEPT !.reason = Append(d.reason, "[auto-godkjent i oppgavemodus]")]

AutoApproved(d) ==
    [d EXCEPT !.requiresApproval = FALSE,
              !.reason = Append(d.reason, "[auto-godkjent i oppgavemodus]")]

\* relaxForTask without the two early returns for blocked and high, and
\* auto-approving whatever requires approval
relaxForTask_AnyRisk(d, toolName, args) ==
    LET path == Or(args.path, Or(args.from, args.savePath))
    IN IF ~taskMode.active THEN d
       ELSE IF d.requiresApproval
            THEN IF path # <<>> /\ StartsWith(resolvePath(path), taskMode.workingDir)
                 THEN AutoApproved(d)
                 ELSE d
            ELSE d

\* evaluateForTask, after its call of evaluate has returned d
relaxForTask(d, toolName, args) ==
    LET path == Or(args.path, Or(args.from, args.savePath))
    IN IF ~taskMode.active THEN d
       ELSE IF d.risk = "blocked" THEN d
       ELSE IF d.risk = "high" THEN d
       ELSE IF d.requiresApproval /\ d.risk = "medium"
            THEN IF path # <<>> /\ StartsWith(resolvePath(path), taskMode.workingDir)
                 THEN AutoApproved(d)
                 ELSE IF /\ toolName = "run_command"
                         /\ args.cwd # <<>>
                         /\ StartsWith(resolvePath(args.cwd), taskMode.workingDir)
                      THEN AutoApproved(d)
                      ELSE d
            ELSE d

\* evaluateForTask
evaluateForTask(toolName, args) == relaxForTask(evaluate(toolName, args), toolName, args)

-----------------------------------------------------------------------------
(* Inputs of the model: tool names, arguments, configurations              *)

\* tool names a caller may pass: the known ones, an unknown one, and one that
\* is a property of Object.prototype
ToolNames == KnownTools \cup {"hack_the_planet", "toString"}

NoArgs ==
    [path |-> <<>>, directory |-> <<>>, from |-> <<>>, to |-> <<>>,
     command |-> <<>>, cwd |-> <<>>, url |-> <<>>, savePath |-> <<>>]

\* path arguments: inside the allowed directory (existing, new, the directory
\* itself), beside it with the same name prefix, outside, in the data
\* directory, deny-listed, through the plantable link, with "..", and in a
\* subdirectory of the allowed directory
PathInputs ==
    { <<"~","/","D","/","s","/","a",".","t","x","t">>,
      <<"~","/","D","/","a",".","t","x","t">>, <<"~","/","D","/","n",".","b","i","n">>, <<"~","/","D">>, <<"~","/","D","2","/","a",".","t","x","t">>, <<"/","o","/","a",".","t","x","t">>,
      <<"/","h","/",".","m","/","S",".","m","d">>, <<"~","/","D","/",".","e","n","v">>, <<"/","e","t","c","/","p","a","s","s","w","d">>,
      <<"~","/","D","/","l","/","a",".","t","x","t">>, <<"~","/","D","/","l","/","n",".","t","x","t">>, <<"~","/","D","/",".",".","/","a",".","t","x","t">> }

MoveTargets == { <<"~","/","D","/","n",".","b","i","n">>, <<"~","/","D","/",".","e","n","v">> }

SavePathInputs == { <<"~","/","D","/","n",".","b","i","n">>, <<"~","/","D","/",".","e","n","v">>, <<"/","o","/","a",".","t","x","t">>, <<"~","/","D","/","l","/","n",".","t","x","t">> }

CommandInputs ==
    { <<"l","s"," ","-","l","a">>, <<"g","i","t"," ","s","t","a","t","u","s">>, <<"m","a","k","e"," ","b","u","i","l","d">>, <<"s","u","d","o"," ","l","s">>, <<"e","c","h","o"," ","a",";"," ","s","u","d","o"," ","b">>,
      <<"s","u"," ">>, <<" ","s","u"," ","r","o","o","t">>, <<"d","o","c","k","e","r"," ","p","s">>, <<"c","a","t"," ","x"," ","|"," ","s","h">>, (<<"e","c","h","o"," ">> \o <<Backquote>> \o <<"i","d">> \o <<Backquote>>),
      <<"l","s"," ","-","l","a",";"," ","r","m"," ","-","r"," ","x">>, <<"g","i","t"," ","l","o","g","x">>, <<>> }

CwdInputs == { <<"~","/","D">>, <<"/","o">> }

UrlInputs ==
    { <<"h","t","t","p","s",":","/","/","e","x","a","m","p","l","e",".","c","o","m","/","x">>, <<"h","t","t","p",":","/","/","l","o","c","a","l","h","o","s","t","/","a">>, <<"f","i","l","e",":","/","/","/","e","t","c","/","p","a","s","s","w","d">>,
      <<"h","t","t","p",":","/","/","1","9","2",".","1","6","8",".","1",".","1","/">>, <<"n","o","t"," ","a"," ","u","r","l">>,
      <<"h","t","t","p",":","/","/","1","2","7",".","0",".","0",".","1","/">>, <<"h","t","t","p",":","/","/","0","x","7","f","0","0","0","0","0","1","/">>,
      <<"h","t","t","p",":","/","/","1","2","7",".","0",".","0",".","2","/">>, <<"h","t","t","p",":","/","/","0","x","0","8","0","8","0","8","0","8","/">>,
      <<"h","t","t","p",":","/","/","a",".","l","o","c","a","l","/">> }

ArgsFor(toolName) ==
    CASE toolName \in {"read_file", "write_file", "list_directory", "delete_file"} ->
            { [NoArgs EXCEPT !.path = p] : p \in PathInputs }
      [] toolName = "search_files" ->
            { [NoArgs EXCEPT !.directory = p] : p \in PathInputs }
            \cup { [NoArgs EXCEPT !.path = <<"~","/","D">>] }
      [] toolName = "move_file" ->
            { [NoArgs EXCEPT !.from = p, !.to = q] : p \in PathInputs, q \in MoveTargets }
      [] toolName = "run_command" ->
            { [NoArgs EXCEPT !.command = c] : c \in CommandInputs }
            \cup { [NoArgs EXCEPT !.command = c, !.cwd = d] :
                      c \in { <<"m","a","k","e"," ","b","u","i","l","d">>, <<"s","u","d","o"," ","l","s">> }, d \in CwdInputs }
      [] toolName = "fetch_page" ->
            { [NoArgs EXCEPT !.url = u] : u \in UrlInputs }
      [] toolName = "download_file" ->
            { [NoArgs EXCEPT !.url = u, !.savePath = p] :
                  u \in { <<"h","t","t","p","s",":","/","/","e","x","a","m","p","l","e",".","c","o","m","/","x">>, <<"h","t","t","p",":","/","/","l","o","c","a","l","h","o","s","t","/","a">> },
                  p \in SavePathInputs }
      [] OTHER -> { NoArgs }

\* tools a configuration may carry a risk override for
OverrideTools == {"write_file", "delete_file", "run_command", "hack_the_planet"}

\* risk_overrides: absent, an empty object, or one entry
RiskOverrides ==
    { [defined |-> FALSE, entries |-> {}], [defined |-> TRUE, entries |-> {}] }
    \cup { [defined |-> TRUE, entries |-> {<<t, r>>}] : t \in OverrideTools, r \in RiskLevels }

PolicyConfigs ==
    [ allowed_dirs : { << <<"~","/","D">> >> },
      blocked_commands : { << <<"d","o","c","k","e","r">> >> },
      shell_enabled : BOOLEAN,
      browser_enabled : BOOLEAN,
      require_approval_for_writes : BOOLEAN,
      risk_overrides : RiskOverrides ]

\* working directories of a task: the allowed directory and a subdirectory of it
WorkingDirs == { <<"~","/","D">>, <<"~","/","D","/","s">> }

NullTaskMode == [active |-> FALSE, workingDir |-> <<>>, taskId |-> ""]

NoCall == [op |-> "none", toolName |-> "", args |-> NoArgs]

NoDecision == [allowed |-> FALSE, risk |-> "none", reason |-> <<>>, requiresApproval |-> FALSE]

-----------------------------------------------------------------------------
(* PolicyEngine: construction and operations                               *)

\* the configuration of the repository's policy tests
DefaultConfig ==
    [ allowed_dirs |-> << <<"~","/","D">> >>,
      blocked_commands |-> << <<"d","o","c","k","e","r">> >>,
      shell_enabled |-> TRUE,
      browser_enabled |-> TRUE,
      require_approval_for_writes |-> TRUE,
      risk_overrides |-> [defined |-> FALSE, entries |-> {}] ]

\* constructor: the allowed directories with the first ~ replaced, made absolute
PolicyInit(configs) ==
    /\ config \in configs
    /\ resolvedAllowedDirs =
          [i \in 1..Len(config.allowed_dirs) |->
              Resolve(ReplaceFirst(config.allowed_dirs[i], <<"~">>, HomeDir))]
    /\ taskMode = NullTaskMode
    /\ symlinks = {}
    /\ pc = "idle"
    /\ call = NoCall
    /\ decision = NoDecision

\* evaluate keeping the risk it found as an override for the tool
Evaluate_CachesDecision ==
    /\ pc = "idle"
    /\ \E toolName \in ToolNames : \E args \in ArgsFor(toolName) :
          /\ call' = [op |-> "evaluate", toolName |-> toolName, args |-> args]
          /\ decision' = evaluate(toolName, args)
          /\ config' = [config EXCEPT !.risk_overrides =
                            [defined |-> TRUE,
                             entries |-> @.entries \cup {<<toolName, evaluate(toolName, args).risk>>}]]
    /\ pc' = "returned"
    /\ UNCHANGED <<resolvedAllowedDirs, taskMode, symlinks>>
    /\ UNCHANGED <<approvalVars, taskVars, toolVars, errVars>>

\* a caller invokes evaluate(toolName, args) and receives the decision
Evaluate ==
    /\ pc = "idle"
    /\ \E toolName \in ToolNames : \E args \in ArgsFor(toolName) :
          /\ call' = [op |-> "evaluate", toolName |-> toolName, args |-> args]
          /\ decision' = evaluate(toolName, args)
    /\ pc' = "returned"
    /\ UNCHANGED <<config, resolvedAllowedDirs, taskMode, symlinks>>
    /\ UNCHANGED <<approvalVars, taskVars, toolVars, errVars>>

\* a caller invokes evaluateForTask(toolName, args) and receives the decision
EvaluateForTask ==
    /\ pc = "idle"
    /\ \E toolName \in ToolNames : \E args \in ArgsFor(toolName) :
          /\ call' = [op |-> "evaluateForTask", toolName |-> toolName, args |-> args]
          /\ decision' = evaluateForTask(toolName, args)
    /\ pc' = "returned"
    /\ UNCHANGED <<config, resolvedAllowedDirs, taskMode, symlinks>>
    /\ UNCHANGED <<approvalVars, taskVars, toolVars, errVars>>

\* the caller has acted on the decision and is ready for its next call
CallerDone ==
    /\ pc = "returned"
    /\ pc' = "idle"
    /\ call' = NoCall
    /\ decision' = NoDecision
    /\ UNCHANGED <<config, resolvedAllowedDirs, taskMode, symlinks>>
    /\ UNCHANGED <<approvalVars, taskVars, toolVars, errVars>>

\* enterTaskMode(taskId, workingDir)
EnterTaskMode ==
    /\ pc = "idle"
    /\ \E workingDir \in WorkingDirs :
          taskMode' = [active |-> TRUE, workingDir |-> resolvePath(workingDir),
                       taskId |-> "t1"]
    /\ UNCHANGED <<config, resolvedAllowedDirs, symlinks, pc, call, decision>>
    /\ UNCHANGED <<approvalVars, taskVars, toolVars, errVars>>

\* exitTaskMode()
ExitTaskMode ==
    /\ pc = "idle"
    /\ taskMode' = NullTaskMode
    /\ UNCHANGED <<config, resolvedAllowedDirs, symlinks, pc, call, decision>>
    /\ UNCHANGED <<approvalVars, taskVars, toolVars, errVars>>

\* the environment: somebody plants a symbolic link
PlantSymlink ==
    /\ pc = "idle"
    /\ \E l \in PlantableLinks : l \notin symlinks /\ symlinks' = symlinks \cup {l}
    /\ UNCHANGED <<config, resolvedAllowedDirs, taskMode, pc, call, decision>>
    /\ UNCHANGED <<approvalVars, taskVars, toolVars, errVars>>


-----------------------------------------------------------------------------
(* ApprovalManager                                                         *)

\* bounds of the approval model
MaxRequests == 2
MaxClock == 4

\* APPROVAL_TIMEOUT_MS, in ticks of the model's clock
TimeoutTicks == 2

\* the letter o with a stroke (not written literally in this module)
OSlash == "<o-slash>"

YES_WORDS ==
    { <<"j","a">>, <<"y","e","s">>, <<"o","k">>, <<"o","k","e","i">>, <<"g","r","e","i","t">>, <<"k", "j", OSlash, "r">>,
      <<"g","o","d","k","j","e","n","n">>, <<"g","o">>, <<"s","u","r","e">>, <<"y","e","p">>, <<"j","e","p">>, <<"j">>, <<"y">> }

NO_WORDS ==
    { <<"n","e","i">>, <<"n","o">>, <<"n","o","p","e">>, <<"s","t","o","p","p">>, <<"a","v","v","i","s">>, <<"i","k","k","e">>, <<"n","e","i"," ","t","a","k","k">>, <<"n">> }

\* user ids: 1 and 2 can be authorized, 3 never is; 0 is a callback without
\* ctx.from (its id is undefined, which is falsy like 0)
UserIds == 0..3

AllowedUserLists == { <<>>, <<1>>, <<1, 2>> }

TextInputs ==
    { <<"j","a">>, <<" ","J","A"," ">>, <<"O","k">>, <<"n","e","i">>, <<"n","e","i"," ","t","a","k","k">>, <<"N">>, <<"y","e","s"," ","p","l","e","a","s","e">>, <<"h","e","i">> }

CallbackActions == {"approve", "reject", "other"}

\* Array.prototype.includes on allowedUsers
IsAllowedUser(userId) == \E i \in 1..Len(allowedUsers) : allowedUsers[i] = userId

NoCause == [via |-> "none", by |-> 0, signal |-> "none", signalId |-> 0, wasPending |-> FALSE]

NotCalled ==
    [state |-> "none", value |-> FALSE, createdAt |-> 0, resolveCalls |-> 0,
     timeoutNotices |-> 0, cause |-> NoCause]

\* the texts of answerCallbackQuery (written without their diacritics)
ALREADY_HANDLED == "Allerede handtert."
NO_ACCESS == "Du har ikke tilgang."
APPROVED == "Godkjent!"
REJECTED == "Avvist."

\* no callback answer is in flight (an answer carries the user only when the
\* handler has read ctx.from before giving it)
NoAnswer == [text |-> "", id |-> 0, by |-> 0]

\* Map.prototype.delete
MapDelete(m, id) == SelectSeq(m, LAMBDA x : x # id)

\* Map.prototype.has
MapHas(m, id) == \E i \in 1..Len(m) : m[i] = id

\* request.resolve(value): a promise settles on the first call of its resolve
\* function, later calls change nothing
Settle(cs, id, value, cause) ==
    [cs EXCEPT ![id] =
        IF @.state = "pending"
        THEN [@ EXCEPT !.state = "resolved", !.value = value,
                       !.resolveCalls = @ + 1, !.cause = cause]
        ELSE [@ EXCEPT !.resolveCalls = @ + 1]]

ApprovalInit ==
    /\ bot = FALSE
    /\ allowedUsers \in AllowedUserLists
    /\ pending = <<>>
    /\ timers = {}
    /\ now = 1
    /\ calls = [k \in 1..MaxRequests |-> NotCalled]
    /\ nCalls = 0
    /\ answer = NoAnswer

\* setBot(bot): connects the bot and registers the callback handler
SetBot ==
    /\ answer = NoAnswer
    /\ ~bot
    /\ bot' = TRUE
    /\ UNCHANGED <<allowedUsers, pending, timers, now, calls, nCalls, answer>>
    /\ UNCHANGED <<policyVars, taskVars, toolVars, errVars>>

\* requestApproval: denies at once without bot or users; otherwise registers
\* the request under a fresh id, and arms its timer (the model's clock stops at
\* MaxClock, so calls are made while their timeout still lies before it)
RequestApproval ==
    /\ answer = NoAnswer
    /\ nCalls < MaxRequests
    /\ now + TimeoutTicks <= MaxClock
    /\ nCalls' = nCalls + 1
    /\ LET id == nCalls + 1 IN
       IF ~bot \/ Len(allowedUsers) = 0
       THEN /\ calls' = [calls EXCEPT ![id] =
                            [NotCalled EXCEPT !.state = "resolved", !.value = FALSE,
                                              !.createdAt = now,
                                              !.cause = [NoCause EXCEPT !.via = "autodeny"]]]
            /\ UNCHANGED <<pending, timers>>
       ELSE /\ calls' = [calls EXCEPT ![id] =
                            [NotCalled EXCEPT !.state = "pending", !.createdAt = now]]
            /\ pending' = Append(pending, id)
            /\ timers' = timers \cup {id}
    /\ UNCHANGED <<bot, allowedUsers, now, answer>>
    /\ UNCHANGED <<policyVars, taskVars, toolVars, errVars>>

\* the index in pending that handleTextResponse's loop ends with: the first
\* entry, in insertion order, whose createdAt is the greatest (and above 0);
\* 0 when there is none
LatestIndex ==
    IF \E i \in 1..Len(pending) : calls[pending[i]].createdAt > 0
    THEN CHOOSE i \in 1..Len(pending) :
            /\ calls[pending[i]].createdAt > 0
            /\ \A j \in 1..Len(pending) :
                  /\ calls[pending[j]].createdAt <= calls[pending[i]].createdAt
                  /\ j < i => calls[pending[j]].createdAt < calls[pending[i]].createdAt
    ELSE 0

\* handleTextResponse(userId, text)
HandleTextResponse(userId, text) ==
    LET normalized == ToLowerCase(Trim(text))
        isYes == normalized \in YES_WORDS
        isNo  == normalized \in NO_WORDS
    IN IF \/ Len(pending) = 0
          \/ ~IsAllowedUser(userId)
          \/ (~isYes /\ ~isNo)
          \/ LatestIndex = 0
       THEN UNCHANGED <<pending, calls>>
       ELSE LET latestId == pending[LatestIndex] IN
            /\ pending' = MapDelete(pending, latestId)
            /\ calls' = Settle(calls, latestId, isYes,
                               [via |-> "text", by |-> userId,
                                signal |-> IF isYes THEN "yes" ELSE "no",
                                signalId |-> latestId,
                                wasPending |-> MapHas(pending, latestId)])

\* a text message arrives
TextResponse ==
    /\ answer = NoAnswer
    /\ \E userId \in UserIds \ {0} : \E text \in TextInputs : HandleTextResponse(userId, text)
    /\ UNCHANGED <<bot, allowedUsers, timers, now, nCalls, answer>>
    /\ UNCHANGED <<policyVars, taskVars, toolVars, errVars>>

\* the callback handler without its check of the responding user
HandleCallbackQuery_AnyUser(userId, action, id) ==
    IF action \notin {"approve", "reject"}
    THEN UNCHANGED <<pending, calls, answer>>
    ELSE IF ~MapHas(pending, id)
    THEN /\ answer' = [text |-> ALREADY_HANDLED, id |-> id, by |-> 0]
         /\ UNCHANGED <<pending, calls>>
    ELSE /\ pending' = MapDelete(pending, id)
         /\ calls' = Settle(calls, id, action = "approve",
                            [via |-> "callback", by |-> userId, signal |-> action,
                             signalId |-> id, wasPending |-> MapHas(pending, id)])
         /\ answer' = [text |-> IF action = "approve" THEN APPROVED ELSE REJECTED,
                       id |-> id, by |-> userId]

\* the callback handler that honours a signal for an id that is not pending
HandleCallbackQuery_ResolvesAgain(userId, action, id) ==
    IF action \notin {"approve", "reject"}
    THEN UNCHANGED <<pending, calls, answer>>
    ELSE IF userId = 0 \/ ~IsAllowedUser(userId)
    THEN /\ answer' = [text |-> NO_ACCESS, id |-> id, by |-> userId]
         /\ UNCHANGED <<pending, calls>>
    ELSE /\ pending' = MapDelete(pending, id)
         /\ calls' = Settle(calls, id, action = "approve",
                            [via |-> "callback", by |-> userId, signal |-> action,
                             signalId |-> id, wasPending |-> MapHas(pending, id)])
         /\ answer' = [text |-> IF action = "approve" THEN APPROVED ELSE REJECTED,
                       id |-> id, by |-> userId]

\* the callback_query:data handler, for the data "<action>:<id>" from userId
HandleCallbackQuery(userId, action, id) ==
    IF action \notin {"approve", "reject"}
    THEN UNCHANGED <<pending, calls, answer>>
    ELSE IF ~MapHas(pending, id)
    THEN /\ answer' = [text |-> ALREADY_HANDLED, id |-> id, by |-> 0]
         /\ UNCHANGED <<pending, calls>>
    ELSE IF userId = 0 \/ ~IsAllowedUser(userId)
    THEN /\ answer' = [text |-> NO_ACCESS, id |-> id, by |-> userId]
         /\ UNCHANGED <<pending, calls>>
    ELSE /\ pending' = MapDelete(pending, id)
         /\ calls' = Settle(calls, id, action = "approve",
                            [via |-> "callback", by |-> userId, signal |-> action,
                             signalId |-> id, wasPending |-> MapHas(pending, id)])
         /\ answer' = [text |-> IF action = "approve" THEN APPROVED ELSE REJECTED,
                       id |-> id, by |-> userId]

\* an inline keyboard button is pressed (the handler exists once setBot ran)
CallbackQuery ==
    /\ answer = NoAnswer
    /\ bot
    /\ \E userId \in UserIds : \E action \in CallbackActions : \E id \in 1..MaxRequests :
          HandleCallbackQuery(userId, action, id)
    /\ UNCHANGED <<bot, allowedUsers, timers, now, nCalls>>
    /\ UNCHANGED <<policyVars, taskVars, toolVars, errVars>>

\* the answer has been delivered and the handler returns; its awaits after the
\* answer is decided touch no state of the manager
CallbackAnswered ==
    /\ answer # NoAnswer
    /\ answer' = NoAnswer
    /\ UNCHANGED <<bot, allowedUsers, pending, timers, now, calls, nCalls>>
    /\ UNCHANGED <<policyVars, taskVars, toolVars, errVars>>

\* request.resolve(false) and the timeout notice, in the setTimeout callback
SettleTimedOut(cs, id) ==
    [Settle(cs, id, FALSE, [NoCause EXCEPT !.via = "timeout", !.wasPending = TRUE])
        EXCEPT ![id].timeoutNotices = @ + 1]

\* the setTimeout callback without its test pending.has(id)
TimerFire_NoPendingTest ==
    /\ answer = NoAnswer
    /\ \E id \in timers :
          /\ now >= calls[id].createdAt + TimeoutTicks
          /\ timers' = timers \ {id}
          /\ pending' = MapDelete(pending, id)
          /\ calls' = SettleTimedOut(calls, id)
    /\ UNCHANGED <<bot, allowedUsers, now, nCalls, answer>>
    /\ UNCHANGED <<policyVars, taskVars, toolVars, errVars>>

\* the setTimeout callback that forgets its request
TimerFire_Forgets ==
    /\ answer = NoAnswer
    /\ \E id \in timers :
          /\ now >= calls[id].createdAt + TimeoutTicks
          /\ timers' = timers \ {id}
          /\ UNCHANGED <<pending, calls>>
    /\ UNCHANGED <<bot, allowedUsers, now, nCalls, answer>>
    /\ UNCHANGED <<policyVars, taskVars, toolVars, errVars>>

\* the setTimeout callback of request id runs, no earlier than its delay
TimerFire ==
    /\ answer = NoAnswer
    /\ \E id \in timers :
          /\ now >= calls[id].createdAt + TimeoutTicks
          /\ timers' = timers \ {id}
          /\ IF MapHas(pending, id)
             THEN /\ pending' = MapDelete(pending, id)
                  /\ calls' = SettleTimedOut(calls, id)
             ELSE UNCHANGED <<pending, calls>>
    /\ UNCHANGED <<bot, allowedUsers, now, nCalls, answer>>
    /\ UNCHANGED <<policyVars, taskVars, toolVars, errVars>>

\* cleanup(): every pending request older than the timeout is removed and denied
RECURSIVE SettleAll(_, _)
SettleAll(cs, ids) ==
    IF ids = <<>> THEN cs
    ELSE SettleAll(Settle(cs, Head(ids), FALSE,
                          [NoCause EXCEPT !.via = "cleanup", !.wasPending = TRUE]),
                   Tail(ids))

Cleanup ==
    /\ answer = NoAnswer
    /\ LET expired == SelectSeq(pending, LAMBDA id : now - calls[id].createdAt > TimeoutTicks)
       IN /\ pending' = SelectSeq(pending, LAMBDA id : ~(now - calls[id].createdAt > TimeoutTicks))
          /\ calls' = SettleAll(calls, expired)
    /\ UNCHANGED <<bot, allowedUsers, timers, now, nCalls, answer>>
    /\ UNCHANGED <<policyVars, taskVars, toolVars, errVars>>

\* time passes
Tick ==
    /\ answer = NoAnswer
    /\ now < MaxClock
    /\ now' = now + 1
    /\ UNCHANGED <<bot, allowedUsers, pending, timers, calls, nCalls, answer>>
    /\ UNCHANGED <<policyVars, taskVars, toolVars, errVars>>

-----------------------------------------------------------------------------
(* TaskEngine: plans, executeTask activations, tool executors               *)

\* bounds of the task model: planTask calls and executeTask calls
MaxPlans == 2
MaxRuns == 2

\* the letter a with a ring (not written literally in this module)
ARing == "<a-ring>"

\* the no-entry sign that opens the shell tool's refusal (not written literally)
NoEntrySign == "<no-entry>"

\* the phrases executeTask looks for in a result
REJECTION_PHRASES == { <<"F","i","k","k"," ","i","k","k","e"," ","l","o","v">>, <<"I","k","k","e"," ","t","i","l","l","a","t","t">>, <<"B","l","o","k","k","e","r","t">> }

\* result.includes(...) || result.includes(...) || result.includes(...)
IndicatesRejection(result) == \E phrase \in REJECTION_PHRASES : Includes(result, phrase)

\* the tools whose failed step stops the task
CriticalTools == {"write_file", "run_command"}

\* what registerTools receives: the gated filesystem and shell tools and a
\* plugin tool, whose executor is arbitrary code
RegisteredTools == {"read_file", "write_file", "run_command", "plugin_tool"}

\* the steps a planner may return, each standing for a description, a tool and
\* its arguments; "blank" is an element {} that has none of them
StepKinds == {"write", "write_out", "read", "run", "shot", "nope", "plug", "blank"}

StepTool(kind) ==
    CASE kind \in {"write", "write_out"} -> "write_file"
      [] kind = "read" -> "read_file"
      [] kind = "run" -> "run_command"
      [] kind = "shot" -> "screenshot"
      [] kind = "nope" -> "teleport"
      [] kind = "plug" -> "plugin_tool"
      [] kind = "blank" -> "undefined"

StepArgs(kind) ==
    CASE kind = "write" -> [NoArgs EXCEPT !.path = <<"~","/","D","/","s","/","a",".","t","x","t">>]
      [] kind = "write_out" -> [NoArgs EXCEPT !.path = <<"/","o","/","a",".","t","x","t">>]
      [] kind = "read" -> [NoArgs EXCEPT !.path = <<"~","/","D","/","a",".","t","x","t">>]
      [] kind = "run" -> [NoArgs EXCEPT !.command = <<"m","a","k","e"," ","b","u","i","l","d">>]
      [] OTHER -> NoArgs

\* the plans a planner may return
PlanInputs ==
    { <<"write", "read">>,
      <<"nope", "run">>,
      <<"plug", "shot">>,
      <<"write_out", "read">> }

\* what generateResponse may return: prose without braces, braces around text
\* that is not JSON, or a JSON object whose "steps" is absent, a string, or
\* an array of elements (a step of StepKinds, or null)
PlannerOutputs ==
    { [text |-> "prose", steps |-> "absent", items |-> <<>>],
      [text |-> "malformed", steps |-> "absent", items |-> <<>>],
      [text |-> "object", steps |-> "absent", items |-> <<>>],
      [text |-> "object", steps |-> "string", items |-> <<>>],
      [text |-> "object", steps |-> "array", items |-> <<>>],
      [text |-> "object", steps |-> "array", items |-> <<"null", "read">>],
      [text |-> "object", steps |-> "array", items |-> <<"blank">>] }
    \cup { [text |-> "object", steps |-> "array", items |-> steps] : steps \in PlanInputs }

\* the try block of planTask: ok is FALSE when it throws (JSON.parse on
\* malformed text, .map on a string, s.description on null)
ParsedSteps(out) ==
    CASE out.text = "prose" -> [ok |-> TRUE, steps |-> <<>>]
      [] out.text = "malformed" -> [ok |-> FALSE, steps |-> <<>>]
      [] out.steps = "absent" -> [ok |-> TRUE, steps |-> <<>>]
      [] out.steps = "string" -> [ok |-> FALSE, steps |-> <<>>]
      [] \E k \in 1..Len(out.items) : out.items[k] = "null" -> [ok |-> FALSE, steps |-> <<>>]
      [] OTHER -> [ok |-> TRUE, steps |-> out.items]

\* the workingDir argument of planTask: absent
PlanDirInputs == { <<>> }

NoPlan == [status |-> "none", workingDir |-> <<>>, steps |-> <<>>, error |-> <<>>,
           completedAt |-> FALSE]

NewStep(kind) == [kind |-> kind, status |-> "pending", result |-> <<>>, error |-> <<>>]

NoRun == [plan |-> 0, i |-> 0, at |-> "none", decision |-> NoDecision, approved |-> FALSE]

\* nanoid(12) of the p-th plan
TaskIdOf(p) == "t" \o ToString(p)

\* results of the tool wrappers and of the engine
SCREENSHOT_TAKEN == <<"S","k","j","e","r","m","b","i","l","d","e"," ","t","a","t","t">>
SCREENSHOT_UNAVAILABLE == <<"S","c","r","e","e","n","s","h","o","t"," ","i","k","k","e"," ","t","i","l","g","j","e","n","g","e","l","i","g">>
WRITE_REJECTED == <<"F","i","k","k"," ","i","k","k","e"," ","l","o","v"," ","t","i","l"," ">> \o <<ARing>> \o <<" ","s","k","r","i","v","e"," ","f","i","l","e","n",".">>
RUN_REJECTED == <<"F","i","k","k"," ","i","k","k","e"," ","l","o","v"," ","t","i","l"," ">> \o <<ARing>> \o <<" ","k","j">> \o <<OSlash>> \o <<"r","e"," ","k","o","m","m","a","n","d","o","e","n",".">>
WRITTEN == <<"S","k","r","e","v","e","t"," ","5"," ","t","e","g","n"," ","t","i","l"," ","~","/","D","/","s","/","a",".","t","x","t">>

UnknownToolError(tool) == <<"U","k","j","e","n","t"," ","v","e","r","k","t">> \o <<OSlash>> \o <<"y",":"," ">> \o <<tool>>

DeniedResult(d) == <<"I","k","k","e"," ","t","i","l","l","a","t","t",":"," ">> \o d.reason

BlockedResult(d) == <<NoEntrySign>> \o <<" ","B","l","o","k","k","e","r","t",":"," ">> \o d.reason

StepFailedError(i, result) == <<"S","t","e","g"," ">> \o <<ToString(i)>> \o <<" ","f","e","i","l","e","t",":"," ">> \o result

StepCrashedError(i, message) == <<"S","t","e","g"," ">> \o <<ToString(i)>> \o <<" ","k","r","a","s","j","e","t",":"," ">> \o message

\* what a file may hold, a command may print, a plugin may return or throw
FileContents == { <<"h","e","l","l","o">>, <<"s","t","a","t","u","s",":"," ","B","l","o","k","k","e","r","t">> }

CommandOutputs == { <<"b","u","i","l","t">>, <<"I","k","k","e"," ","t","i","l","l","a","t","t"," ","h","e","r">> }

PluginResults == { <<"d","o","n","e">>, <<"F","i","k","k"," ","i","k","k","e"," ","l","o","v">> }

ErrorMessages == { <<"b","o","o","m">> }

\* the arguments executeTask passes to the executor: for a command without cwd,
\* the plan's working directory with a leading ~ replaced
ExecutorArgs(plan, i) ==
    LET kind == plan.steps[i].kind
        args == StepArgs(kind)
    IN IF StepTool(kind) = "run_command" /\ args.cwd = <<>>
       THEN [args EXCEPT !.cwd = IF plan.workingDir # <<>> /\ Head(plan.workingDir) = "~"
                                  THEN HomeDir \o Tail(plan.workingDir)
                                  ELSE plan.workingDir]
       ELSE args

\* the arguments a tool wrapper hands to PolicyEngine.evaluate
WrapperPolicyArgs(tool, args) ==
    IF tool = "run_command" THEN [NoArgs EXCEPT !.command = Trim(args.command)]
    ELSE [NoArgs EXCEPT !.path = args.path]

\* the decision a tool wrapper obtains; a plugin's executor asks for none
WrapperDecision(tool, args) ==
    IF tool = "plugin_tool" THEN NoDecision
    ELSE evaluate(tool, WrapperPolicyArgs(tool, args))

\* the wrappers that ask for an approval (write_file, run_command) do so for
\* an allowed decision that requires it; read_file's wrapper never asks
AsksApproval(tool, d) ==
    tool \in {"write_file", "run_command"} /\ d.allowed /\ d.requiresApproval

\* what the executor of a tool can return, given the decision its wrapper got
\* and the answer to its approval request
ToolResults(tool, d, approved) ==
    IF tool = "plugin_tool" THEN PluginResults
    ELSE IF ~d.allowed
         THEN IF tool = "run_command" THEN {BlockedResult(d)} ELSE {DeniedResult(d)}
    ELSE IF AsksApproval(tool, d) /\ ~approved
         THEN IF tool = "run_command" THEN {RUN_REJECTED} ELSE {WRITE_REJECTED}
    ELSE CASE tool = "write_file" -> {WRITTEN}
           [] tool = "read_file" -> FileContents
           [] tool = "run_command" -> CommandOutputs

\* the activation record of an executeTask call that is suspended or has ended
Suspended(plan, i, at, d) == [plan |-> plan, i |-> i, at |-> at, decision |-> d]

\* lines 832-837: a plan still running is completed; completedAt is set
Finished(plan) ==
    [plan EXCEPT !.status = IF @ = "running" THEN "completed" ELSE @,
                 !.completedAt = TRUE]

\* the loop of executeTask from the head of iteration i up to its next await
\* or its return (StartStep), and from the try block of iteration i (Dispatch);
\* at "invoke" the executor has been called and its wrapper is about to ask
\* the policy engine, within the same synchronous stretch
RECURSIVE StartStep(_, _)
RECURSIVE Dispatch(_, _)
StartStep(plan, i) ==
    IF i > Len(plan.steps)
    THEN Suspended(Finished(plan), i, "returned", NoDecision)
    ELSE IF onProgress
         THEN Suspended([plan EXCEPT !.steps[i].status = "running"], i, "progress", NoDecision)
         ELSE Dispatch([plan EXCEPT !.steps[i].status = "running"], i)

\* the try block with an unknown tool treated as a crash of the task
Dispatch_UnknownToolAborts(plan, i) ==
    LET tool == StepTool(plan.steps[i].kind) IN
    IF tool = "screenshot"
    THEN IF onScreenshot
         THEN Suspended(plan, i, "screenshot", NoDecision)
         ELSE StartStep([plan EXCEPT !.steps[i].result = SCREENSHOT_UNAVAILABLE,
                                     !.steps[i].status = "completed"], i + 1)
    ELSE IF tool \notin toolExecutors
    THEN Suspended(Finished([plan EXCEPT !.steps[i].error = UnknownToolError(tool),
                                         !.steps[i].status = "failed",
                                         !.status = "failed"]),
                   i, "returned", NoDecision)
    ELSE Suspended(plan, i, "invoke", NoDecision)

Dispatch(plan, i) ==
    LET tool == StepTool(plan.steps[i].kind) IN
    IF tool = "screenshot"
    THEN IF onScreenshot
         THEN Suspended(plan, i, "screenshot", NoDecision)
         ELSE StartStep([plan EXCEPT !.steps[i].result = SCREENSHOT_UNAVAILABLE,
                                     !.steps[i].status = "completed"], i + 1)
    ELSE IF tool \notin toolExecutors
    THEN StartStep([plan EXCEPT !.steps[i].error = UnknownToolError(tool),
                                !.steps[i].status = "failed"], i + 1)
    ELSE Suspended(plan, i, "invoke", NoDecision)

\* lines 806-820: the executor has returned result
AfterResult(plan, i, result) ==
    IF IndicatesRejection(result)
    THEN IF StepTool(plan.steps[i].kind) \in CriticalTools
         THEN Suspended(Finished([plan EXCEPT !.steps[i].result = result,
                                              !.steps[i].status = "failed",
                                              !.steps[i].error = result,
                                              !.status = "failed",
                                              !.error = StepFailedError(i, result)]),
                        i, "returned", NoDecision)
         ELSE StartStep([plan EXCEPT !.steps[i].result = result,
                                     !.steps[i].status = "failed",
                                     !.steps[i].error = result], i + 1)
    ELSE StartStep([plan EXCEPT !.steps[i].result = result,
                                !.steps[i].status = "completed"], i + 1)

\* lines 821-829: something in the try block of iteration i threw
AfterThrow(plan, i, message) ==
    Suspended(Finished([plan EXCEPT !.steps[i].error = message,
                                    !.steps[i].status = "failed",
                                    !.status = "failed",
                                    !.error = StepCrashedError(i, message)]),
              i, "returned", NoDecision)

TaskInit ==
    /\ currentTask = 0
    /\ plans = [p \in 1..MaxPlans |-> NoPlan]
    /\ nPlans = 0
    /\ runs = [r \in 1..MaxRuns |-> NoRun]
    /\ nRuns = 0
    /\ toolExecutors = {}
    /\ onProgress = FALSE
    /\ onScreenshot = FALSE

\* the state the run r and its plan are left in by a continuation
Continue(r, next, approved) ==
    /\ plans' = [plans EXCEPT ![runs[r].plan] = next.plan]
    /\ runs' = [runs EXCEPT ![r] = [plan |-> runs[r].plan, i |-> next.i, at |-> next.at,
                                    decision |-> next.decision, approved |-> approved]]

\* a new activation of executeTask on plan taskId, as its first stretch leaves it
Activate(taskId, next) ==
    /\ plans' = [plans EXCEPT ![taskId] = next.plan]
    /\ runs' = [runs EXCEPT ![nRuns + 1] =
                   [plan |-> taskId, i |-> next.i, at |-> next.at,
                    decision |-> next.decision, approved |-> FALSE]]
    /\ nRuns' = nRuns + 1

\* no activation is inside the synchronous stretch that ends with the
\* wrapper's first await: only then can another handler or callback run
NoneInvoking == \A r \in 1..MaxRuns : runs[r].at # "invoke"

\* the wrapper of the executor that run r has called holds the decision d: it
\* awaits the approval it must ask for, or else its logging and its effect
Invoked(r, tool, d) ==
    runs' = [runs EXCEPT ![r].decision = d,
                         ![r].at = IF AsksApproval(tool, d) THEN "approval" ELSE "tool"]

\* the rest of the stretch in which executeTask called an executor: the
\* wrapper evaluates the policy and reaches its first await
WrapperEvaluates ==
    /\ \E r \in 1..MaxRuns :
          /\ runs[r].at = "invoke"
          /\ Invoked(r, StepTool(plans[runs[r].plan].steps[runs[r].i].kind),
                     WrapperDecision(StepTool(plans[runs[r].plan].steps[runs[r].i].kind),
                                     ExecutorArgs(plans[runs[r].plan], runs[r].i)))
    /\ UNCHANGED <<currentTask, plans, nPlans, nRuns, toolExecutors, onProgress, onScreenshot>>
    /\ UNCHANGED <<policyVars, approvalVars, toolVars, errVars>>

\* registerTools(tools), at start-up
RegisterTools ==
    /\ toolExecutors = {}
    /\ nPlans = 0
    /\ toolExecutors' = RegisteredTools
    /\ UNCHANGED <<currentTask, plans, nPlans, runs, nRuns, onProgress, onScreenshot>>
    /\ UNCHANGED <<policyVars, approvalVars, toolVars, errVars>>

\* setProgressCallback(cb), at start-up, after the tools are registered
SetProgressCallback ==
    /\ NoneInvoking
    /\ ~onProgress
    /\ toolExecutors # {}
    /\ nPlans = 0
    /\ onProgress' = TRUE
    /\ UNCHANGED <<currentTask, plans, nPlans, runs, nRuns, toolExecutors, onScreenshot>>
    /\ UNCHANGED <<policyVars, approvalVars, toolVars, errVars>>

\* setScreenshotCallback(cb), at start-up, after the progress callback is set
SetScreenshotCallback ==
    /\ NoneInvoking
    /\ ~onScreenshot
    /\ onProgress
    /\ nPlans = 0
    /\ onScreenshot' = TRUE
    /\ UNCHANGED <<currentTask, plans, nPlans, runs, nRuns, toolExecutors, onProgress>>
    /\ UNCHANGED <<policyVars, approvalVars, toolVars, errVars>>

\* planTask(description, workingDir), from the planner's answer on: a plan is
\* built and tracked, or the call throws and leaves everything as it was
PlanTask ==
    /\ NoneInvoking
    /\ nPlans < MaxPlans
    /\ \E out \in PlannerOutputs : \E workingDir \in PlanDirInputs :
          IF ~ParsedSteps(out).ok \/ ParsedSteps(out).steps = <<>>
          THEN UNCHANGED <<currentTask, plans, nPlans>>
          ELSE /\ plans' = [plans EXCEPT ![nPlans + 1] =
                              [status |-> "awaiting_approval",
                               workingDir |-> Or(workingDir,
                                                 Or(IF Len(config.allowed_dirs) > 0
                                                    THEN config.allowed_dirs[1] ELSE <<>>,
                                                    <<"~","/","D","e","s","k","t","o","p">>)),
                               steps |-> [k \in 1..Len(ParsedSteps(out).steps) |->
                                             NewStep(ParsedSteps(out).steps[k])],
                               error |-> <<>>, completedAt |-> FALSE]]
               /\ currentTask' = nPlans + 1
               /\ nPlans' = nPlans + 1
    /\ UNCHANGED <<runs, nRuns, toolExecutors, onProgress, onScreenshot>>
    /\ UNCHANGED <<policyVars, approvalVars, toolVars, errVars>>

\* executeTask(taskId), up to its first await or its return
ExecuteTask ==
    /\ NoneInvoking
    /\ nRuns < MaxRuns
    /\ \E taskId \in 1..MaxPlans :
          IF currentTask = 0 \/ currentTask # taskId
          THEN UNCHANGED <<plans, runs, nRuns>>
          ELSE Activate(taskId, StartStep([plans[taskId] EXCEPT !.status = "running"], 1))
    /\ UNCHANGED <<currentTask, nPlans, toolExecutors, onProgress, onScreenshot>>
    /\ UNCHANGED <<policyVars, approvalVars, toolVars, errVars>>

\* the progress callback's promise is fulfilled
ProgressDone ==
    /\ NoneInvoking
    /\ \E r \in 1..MaxRuns :
          /\ runs[r].at = "progress"
          /\ Continue(r, Dispatch(plans[runs[r].plan], runs[r].i), FALSE)
    /\ UNCHANGED <<currentTask, nPlans, nRuns, toolExecutors, onProgress, onScreenshot>>
    /\ UNCHANGED <<policyVars, approvalVars, toolVars, errVars>>

\* the progress callback throws: the await is outside the try block, so
\* executeTask rejects where it stands
ProgressThrows ==
    /\ NoneInvoking
    /\ \E r \in 1..MaxRuns :
          /\ runs[r].at = "progress"
          /\ runs' = [runs EXCEPT ![r].at = "threw"]
    /\ UNCHANGED <<currentTask, plans, nPlans, nRuns, toolExecutors, onProgress, onScreenshot>>
    /\ UNCHANGED <<policyVars, approvalVars, toolVars, errVars>>

\* the screenshot callback returns a path or null
ScreenshotDone ==
    /\ NoneInvoking
    /\ \E r \in 1..MaxRuns :
          /\ runs[r].at = "screenshot"
          /\ \E result \in { <<"/","t","m","p","/","s","h","o","t",".","p","n","g">>, SCREENSHOT_TAKEN } :
                Continue(r, StartStep([plans[runs[r].plan] EXCEPT
                                          !.steps[runs[r].i].result = result,
                                          !.steps[runs[r].i].status = "completed"],
                                      runs[r].i + 1), FALSE)
    /\ UNCHANGED <<currentTask, nPlans, nRuns, toolExecutors, onProgress, onScreenshot>>
    /\ UNCHANGED <<policyVars, approvalVars, toolVars, errVars>>

\* the screenshot callback throws
ScreenshotThrows ==
    /\ NoneInvoking
    /\ \E r \in 1..MaxRuns :
          /\ runs[r].at = "screenshot"
          /\ \E message \in ErrorMessages :
                Continue(r, AfterThrow(plans[runs[r].plan], runs[r].i, message), FALSE)
    /\ UNCHANGED <<currentTask, nPlans, nRuns, toolExecutors, onProgress, onScreenshot>>
    /\ UNCHANGED <<policyVars, approvalVars, toolVars, errVars>>

\* the promise of the wrapper's requestApproval call is settled
ApprovalAnswered ==
    /\ NoneInvoking
    /\ \E r \in 1..MaxRuns :
          /\ runs[r].at = "approval"
          /\ \E approved \in BOOLEAN :
                runs' = [runs EXCEPT ![r].at = "tool", ![r].approved = approved]
    /\ UNCHANGED <<currentTask, plans, nPlans, nRuns, toolExecutors, onProgress, onScreenshot>>
    /\ UNCHANGED <<policyVars, approvalVars, toolVars, errVars>>

\* the executor's promise is fulfilled with its result
ToolReturns ==
    /\ NoneInvoking
    /\ \E r \in 1..MaxRuns :
          /\ runs[r].at = "tool"
          /\ \E result \in ToolResults(StepTool(plans[runs[r].plan].steps[runs[r].i].kind),
                                       runs[r].decision, runs[r].approved) :
                Continue(r, AfterResult(plans[runs[r].plan], runs[r].i, result), FALSE)
    /\ UNCHANGED <<currentTask, nPlans, nRuns, toolExecutors, onProgress, onScreenshot>>
    /\ UNCHANGED <<policyVars, approvalVars, toolVars, errVars>>

\* the executor's promise is rejected: only a plugin's executor lets an error out
ToolThrows ==
    /\ NoneInvoking
    /\ \E r \in 1..MaxRuns :
          /\ runs[r].at = "tool"
          /\ StepTool(plans[runs[r].plan].steps[runs[r].i].kind) = "plugin_tool"
          /\ \E message \in ErrorMessages :
                Continue(r, AfterThrow(plans[runs[r].plan], runs[r].i, message), FALSE)
    /\ UNCHANGED <<currentTask, nPlans, nRuns, toolExecutors, onProgress, onScreenshot>>
    /\ UNCHANGED <<policyVars, approvalVars, toolVars, errVars>>

\* cancel() that marks every step skipped, whatever its status
Cancel_SkipsEveryStep ==
    /\ NoneInvoking
    /\ IF currentTask = 0
       THEN UNCHANGED plans
       ELSE plans' = [plans EXCEPT
                         ![currentTask].status = "cancelled",
                         ![currentTask].steps =
                             [k \in 1..Len(plans[currentTask].steps) |->
                                 [plans[currentTask].steps[k] EXCEPT !.status = "skipped"]]]
    /\ UNCHANGED <<currentTask, nPlans, runs, nRuns, toolExecutors, onProgress, onScreenshot>>
    /\ UNCHANGED <<policyVars, approvalVars, toolVars, errVars>>

\* cancel()
Cancel ==
    /\ NoneInvoking
    /\ IF currentTask = 0
       THEN UNCHANGED plans
       ELSE LET steps == plans[currentTask].steps IN
            plans' = [plans EXCEPT
                         ![currentTask].status = "cancelled",
                         ![currentTask].steps =
                             [k \in 1..Len(steps) |->
                                 IF steps[k].status \in {"pending", "running"}
                                 THEN [steps[k] EXCEPT !.status = "skipped"]
                                 ELSE steps[k]]]
    /\ UNCHANGED <<currentTask, nPlans, runs, nRuns, toolExecutors, onProgress, onScreenshot>>
    /\ UNCHANGED <<policyVars, approvalVars, toolVars, errVars>>

\* the caller of the task engine enters task mode for the plan it is about to
\* have executed
EnterTaskModeForPlan ==
    /\ NoneInvoking
    /\ currentTask # 0
    /\ plans[currentTask].status = "awaiting_approval"
    /\ ~taskMode.active
    /\ taskMode' = [active |-> TRUE,
                    workingDir |-> resolvePath(plans[currentTask].workingDir),
                    taskId |-> TaskIdOf(currentTask)]
    /\ UNCHANGED <<config, resolvedAllowedDirs, symlinks, pc, call, decision>>
    /\ UNCHANGED <<approvalVars, taskVars, toolVars, errVars>>

-----------------------------------------------------------------------------
(* The audit log and the tool wrappers                                      *)

\* bounds of the tool model: wrapper invocations and audit calls
MaxInvocations == 1
MaxAuditCalls == 3

Quote == "\""
Backslash == "\\"
NewLine == "\n"

\* the values an audit entry is made of; a property whose value is undefined
\* is left out by JSON.stringify, and a BigInt makes it throw
StringValue(chars) == [kind |-> "string", chars |-> chars, members |-> <<>>]
NumberValue(n) == [kind |-> "number", chars |-> <<ToString(n)>>, members |-> <<>>]
ObjectValue(members) == [kind |-> "object", chars |-> <<>>, members |-> members]
UndefinedValue == [kind |-> "undefined", chars |-> <<>>, members |-> <<>>]
BigIntValue == [kind |-> "bigint", chars |-> <<>>, members |-> <<>>]

Member(key, value) == [key |-> key, value |-> value]

\* JSON.stringify throws a TypeError on a BigInt, at any depth
RECURSIVE StringifyThrows(_)
StringifyThrows(v) ==
    \/ v.kind = "bigint"
    \/ \E k \in 1..Len(v.members) : StringifyThrows(v.members[k].value)

\* the character copied as it is
JsonEscapeChar_Raw(c) == <<c>>

\* QuoteJSONString: the escapes of the characters that need one
JsonEscapeChar(c) ==
    CASE c = Quote -> <<Backslash, Quote>>
      [] c = Backslash -> <<Backslash, Backslash>>
      [] c = NewLine -> <<Backslash, "n">>
      [] c = "\t" -> <<Backslash, "t">>
      [] OTHER -> <<c>>

RECURSIVE JsonEscape(_)
JsonEscape(s) ==
    IF s = <<>> THEN <<>> ELSE JsonEscapeChar(Head(s)) \o JsonEscape(Tail(s))

\* JSON.stringify(v) for a value it does not throw on
RECURSIVE JsonStringify(_)
RECURSIVE JsonMembers(_)
JsonMembers(members) ==
    IF members = <<>> THEN <<>>
    ELSE <<Quote, Head(members).key, Quote, ":">> \o JsonStringify(Head(members).value)
         \o (IF Len(members) > 1 THEN <<",">> \o JsonMembers(Tail(members)) ELSE <<>>)

JsonStringify(v) ==
    CASE v.kind = "string" -> <<Quote>> \o JsonEscape(v.chars) \o <<Quote>>
      [] v.kind = "number" -> v.chars
      [] v.kind = "object" ->
            <<"{">> \o JsonMembers(SelectSeq(v.members, LAMBDA m : m.value.kind # "undefined"))
            \o <<"}">>

\* new Date().toISOString() at the n-th audit call
Timestamp(n) == <<"T", ToString(n)>>

\* the entry logDecision builds
LogEntry(n, tool, args, risk, outcome, userId) ==
    ObjectValue(<< Member("timestamp", StringValue(Timestamp(n))),
                   Member("tool", StringValue(<<tool>>)),
                   Member("args", ObjectValue(args)),
                   Member("risk", StringValue(<<risk>>)),
                   Member("decision", StringValue(<<outcome>>)),
                   Member("userId", userId) >>)

\* the entry the shell tool builds after the command has run: key is "result"
\* with the output, or "error" with the message of the failure
ResultEntry(n, args, risk, key, output) ==
    ObjectValue(<< Member("timestamp", StringValue(Timestamp(n))),
                   Member("tool", StringValue(<<"run_command">>)),
                   Member("args", ObjectValue(args)),
                   Member("risk", StringValue(<<risk>>)),
                   Member("decision", StringValue(<<"allowed">>)),
                   Member("executionTimeMs", NumberValue(5)),
                   Member(key, StringValue(output)) >>)

\* how an appendFile call can end: all written, nothing written and an error,
\* or an error after a part of the data was written
WriteOutcomes == {"written", "failed", "partial"}

appendFile(file, data, outcome) ==
    CASE outcome = "written" -> file \o data
      [] outcome = "failed" -> file
      [] outcome = "partial" -> file \o SubSeq(data, 1, Len(data) \div 2)

\* audit(entry): the line is produced before the try block, the write is
\* inside it; the call is recorded with how it ended
audit(entry, outcome) ==
    IF StringifyThrows(entry)
    THEN /\ auditFile' = auditFile
         /\ auditCalls' = Append(auditCalls, [entry |-> entry, outcome |-> "threw"])
    ELSE /\ auditFile' = appendFile(auditFile, JsonStringify(entry) \o <<NewLine>>, outcome)
         /\ auditCalls' = Append(auditCalls, [entry |-> entry, outcome |-> outcome])

\* direct logDecision calls: plain arguments, arguments with characters JSON
\* must escape, and arguments with a value JSON cannot serialise
DirectCalls ==
    { [args |-> << Member("path", StringValue(<<"f",".","t","x","t">>)) >>,
       outcome |-> "allowed", userId |-> StringValue(<<"u","1">>)],
      [args |-> << Member("path", StringValue(<<"a",Quote,"b",NewLine,"c",Backslash>>)) >>,
       outcome |-> "denied", userId |-> UndefinedValue],
      [args |-> << Member("path", StringValue(<<"f">>)), Member("size", BigIntValue) >>,
       outcome |-> "allowed", userId |-> UndefinedValue] }

\* the tools the registry offers with a policy decision in their wrapper
ReadStyleTools == {"read_file", "list_directory", "search_files", "fetch_page", "search_web"}
GitReadTools == {"git_status", "git_log", "git_diff", "git_branch"}
GitWriteTools == {"git_add", "git_commit", "git_checkout", "git_push", "git_pull"}
GitTools == GitReadTools \cup GitWriteTools
WrapperTools == KnownTools \cup GitTools

\* the wrappers that ask for approval whatever the decision says, those that
\* ask when it requires approval, and those that log an unapproved go-ahead
AlwaysAskTools == {"delete_file", "download_file", "git_commit", "git_checkout", "git_push", "git_pull"}
AskIfRequiredTools == {"write_file", "move_file", "run_command"}
LogsAllowedTools == {"write_file", "run_command"}

\* the call arguments of the model: a location inside and one outside the
\* allowed directory, commands that are medium, safe (with quotes) and blocked
WrapperInputs(tool) ==
    CASE tool \in {"read_file", "write_file", "list_directory", "delete_file"} ->
            { [args |-> [NoArgs EXCEPT !.path = p], name |-> <<>>] :
                 p \in { <<"~","/","D","/","a",".","t","x","t">>, <<"/","o","/","a",".","t","x","t">> } }
      [] tool = "search_files" ->
            { [args |-> [NoArgs EXCEPT !.directory = p], name |-> <<>>] :
                 p \in { <<"~","/","D">>, <<"/","o">> } }
      [] tool = "move_file" ->
            { [args |-> [NoArgs EXCEPT !.from = <<"~","/","D","/","a",".","t","x","t">>, !.to = q],
               name |-> <<>>] :
                 q \in { <<"~","/","D","/","n",".","b","i","n">>, <<"/","o","/","a",".","t","x","t">> } }
      [] tool = "run_command" ->
            { [args |-> [NoArgs EXCEPT !.command = c], name |-> <<>>] :
                 c \in { <<"m","a","k","e"," ","b","u","i","l","d">>,
                         <<"e","c","h","o"," ",Quote,"a",Quote>>,
                         <<"s","u","d","o"," ","l","s">> } }
      [] tool = "fetch_page" ->
            { [args |-> [NoArgs EXCEPT !.url = u], name |-> <<>>] :
                 u \in { <<"h","t","t","p","s",":","/","/","e","x","a","m","p","l","e",".","c","o","m","/","x">>,
                         <<"h","t","t","p",":","/","/","l","o","c","a","l","h","o","s","t","/","a">> } }
      [] tool = "search_web" -> { [args |-> NoArgs, name |-> <<>>] }
      [] tool = "download_file" ->
            { [args |-> [NoArgs EXCEPT !.url = <<"h","t","t","p","s",":","/","/","e","x","a","m","p","l","e",".","c","o","m","/","x">>,
                                       !.savePath = q], name |-> <<>>] :
                 q \in { <<"~","/","D","/","n",".","b","i","n">>, <<"/","o","/","a",".","t","x","t">> } }
      [] tool = "git_branch" ->
            { [args |-> [NoArgs EXCEPT !.directory = p], name |-> n] :
                 p \in { <<"~","/","D">>, <<"/","o">> }, n \in { <<>>, <<"f","x">> } }
      [] OTHER ->
            { [args |-> [NoArgs EXCEPT !.directory = p], name |-> <<>>] :
                 p \in { <<"~","/","D">>, <<"/","o">> } }

\* the tool name and the arguments a wrapper passes to policy.evaluate
PolicyToolOf(tool) ==
    CASE tool \in GitReadTools -> "list_directory"
      [] tool \in GitWriteTools -> "write_file"
      [] OTHER -> tool

PolicyArgsOf(tool, args) ==
    CASE tool \in GitTools -> [NoArgs EXCEPT !.path = args.directory]
      [] tool = "run_command" -> [NoArgs EXCEPT !.command = Trim(args.command)]
      [] OTHER -> args

\* the args object a wrapper passes to logDecision
LoggedArgs(tool, args) ==
    CASE tool \in {"read_file", "write_file", "list_directory", "delete_file"} ->
            << Member("path", StringValue(args.path)) >>
      [] tool = "search_files" ->
            << Member("directory", StringValue(args.directory)),
               Member("pattern", StringValue(<<"*">>)) >>
      [] tool = "move_file" ->
            << Member("from", StringValue(args.from)), Member("to", StringValue(args.to)) >>
      [] tool = "run_command" -> << Member("command", StringValue(Trim(args.command))) >>
      [] tool = "fetch_page" -> << Member("url", StringValue(args.url)) >>
      [] tool = "search_web" -> << Member("query", StringValue(<<"q">>)) >>
      [] tool = "download_file" ->
            << Member("url", StringValue(args.url)), Member("savePath", StringValue(args.savePath)) >>

\* the args object of the shell tool's result entry: cwd is undefined when absent
ResultArgs(args) ==
    << Member("command", StringValue(Trim(args.command))),
       Member("cwd", IF args.cwd = <<>> THEN UndefinedValue ELSE StringValue(args.cwd)) >>

\* one call of a wrapper: where it stands, the decision it obtained, whether it
\* asked for approval and got it, the outcomes it has passed to logDecision,
\* whether the tool's effect was performed, and how it returned
NoInvocation ==
    [tool |-> "", args |-> NoArgs, name |-> <<>>, at |-> "idle", decision |-> NoDecision,
     logging |-> "", asked |-> FALSE, approved |-> FALSE, logged |-> <<>>,
     effect |-> FALSE, ret |-> ""]

AtLog(i, outcome) == [i EXCEPT !.at = "log", !.logging = outcome]
AtApproval(i) == [i EXCEPT !.at = "approval", !.asked = TRUE]
AtEffect(i) == [i EXCEPT !.at = "effect", !.logging = ""]
Refused(i, ret) == [i EXCEPT !.at = "returned", !.logging = "", !.ret = ret]
Performed(i) == [i EXCEPT !.at = "returned", !.logging = "", !.effect = TRUE, !.ret = "result"]

\* the wrapper asks for approval
RequestsApproval(i) ==
    \/ i.tool \in AlwaysAskTools
    \/ i.tool \in AskIfRequiredTools /\ i.decision.requiresApproval
    \/ i.tool = "git_branch" /\ i.name # <<>>

\* from the decision to the wrapper's first await, or to its return (the git
\* tools run git synchronously)
AfterEvaluate(i) ==
    IF i.tool \in ReadStyleTools
    THEN AtLog(i, IF i.decision.allowed THEN "allowed" ELSE "denied")
    ELSE IF ~i.decision.allowed
    THEN IF i.tool \in GitTools THEN Refused(i, "denied") ELSE AtLog(i, "denied")
    ELSE IF RequestsApproval(i) THEN AtApproval(i)
    ELSE IF i.tool \in LogsAllowedTools THEN AtLog(i, "allowed")
    ELSE IF i.tool \in GitTools THEN Performed(i)
    ELSE AtEffect(i)

\* after the approval request is settled
AfterApproval(i) ==
    IF i.tool \in GitTools
    THEN IF i.approved THEN Performed(i) ELSE Refused(i, "rejected")
    ELSE AtLog(i, IF i.approved THEN "approved" ELSE "rejected")

\* after the awaited logDecision or audit call has completed
AfterLogged(i) ==
    CASE i.logging \in {"denied", "rejected"} -> Refused(i, i.logging)
      [] i.logging \in {"allowed", "approved"} -> AtEffect(i)
      [] i.logging \in {"result", "error"} -> Performed(i)

\* after the awaited effect, which succeeded or threw: the shell tool logs the
\* result or the error, the others return
AfterEffect(i, ok) ==
    IF i.tool = "run_command"
    THEN [i EXCEPT !.at = "log", !.logging = IF ok THEN "result" ELSE "error", !.effect = TRUE]
    ELSE Performed(i)

\* the entry of the log call the invocation i is waiting for
EntryOf(i, n) ==
    IF i.logging \in {"result", "error"}
    THEN ResultEntry(n, ResultArgs(i.args), i.decision.risk, i.logging, <<"o","k",NewLine>>)
    ELSE LogEntry(n, i.tool, LoggedArgs(i.tool, i.args), i.decision.risk, i.logging,
                  UndefinedValue)

ToolInit ==
    /\ auditFile = <<>>
    /\ auditCalls = <<>>
    /\ inv = NoInvocation
    /\ nInv = 0

\* the configurations of the tool model: the default one, one that does not
\* require approval for writes, and one with a risk override for a read tool
ToolConfigs ==
    { DefaultConfig,
      [DefaultConfig EXCEPT !.require_approval_for_writes = FALSE],
      [DefaultConfig EXCEPT !.risk_overrides =
                               [defined |-> TRUE, entries |-> {<<"read_file", "medium">>}]] }

\* a wrapper is called: it evaluates the policy and runs to its first await
\* or, for a git tool that needs no approval, to its return
ToolInvoke ==
    /\ inv.at \in {"idle", "returned"}
    /\ nInv < MaxInvocations
    /\ \E tool \in WrapperTools : \E in \in WrapperInputs(tool) :
          inv' = AfterEvaluate([NoInvocation EXCEPT
                                   !.tool = tool, !.args = in.args, !.name = in.name,
                                   !.decision = evaluate(PolicyToolOf(tool),
                                                         PolicyArgsOf(tool, in.args))])
    /\ nInv' = nInv + 1
    /\ UNCHANGED <<auditFile, auditCalls>>
    /\ UNCHANGED <<policyVars, approvalVars, taskVars, errVars>>

\* the logDecision or audit call the wrapper awaits completes
AuditWritten ==
    /\ inv.at = "log"
    /\ \E outcome \in WriteOutcomes : audit(EntryOf(inv, Len(auditCalls) + 1), outcome)
    /\ inv' = AfterLogged([inv EXCEPT !.logged = Append(@, inv.logging)])
    /\ UNCHANGED nInv
    /\ UNCHANGED <<policyVars, approvalVars, taskVars, errVars>>

\* the approval request the wrapper awaits is settled
ApprovalSettled ==
    /\ inv.at = "approval"
    /\ \E approved \in BOOLEAN : inv' = AfterApproval([inv EXCEPT !.approved = approved])
    /\ UNCHANGED <<auditFile, auditCalls, nInv>>
    /\ UNCHANGED <<policyVars, approvalVars, taskVars, errVars>>

\* the effect the wrapper awaits has been performed, or has thrown
EffectDone ==
    /\ inv.at = "effect"
    /\ \E ok \in BOOLEAN : inv' = AfterEffect(inv, ok)
    /\ UNCHANGED <<auditFile, auditCalls, nInv>>
    /\ UNCHANGED <<policyVars, approvalVars, taskVars, errVars>>

\* a direct, awaited call of logDecision(tool, args, decision, outcome, userId)
LogDecision ==
    /\ inv.at \in {"idle", "returned"}
    /\ Len(auditCalls) < MaxAuditCalls
    /\ \E c \in DirectCalls : \E written \in WriteOutcomes :
          audit(LogEntry(Len(auditCalls) + 1, "read_file", c.args,
                         IF c.outcome = "allowed" THEN "safe" ELSE "blocked", c.outcome,
                         c.userId),
                written)
    /\ UNCHANGED <<inv, nInv>>
    /\ UNCHANGED <<policyVars, approvalVars, taskVars, errVars>>


-----------------------------------------------------------------------------
(* errors.ts: retryWithBackoff and the RateLimiter                          *)

\* what fn may do in one attempt: resolve, or reject with an Error, with an
\* LLMError of some status code (0 when it has none), or with a value that is
\* not an Error
FnOutcomes ==
    { [class |-> "value", statusCode |-> 0],
      [class |-> "Error", statusCode |-> 0],
      [class |-> "LLMError", statusCode |-> 401],
      [class |-> "LLMError", statusCode |-> 403],
      [class |-> "LLMError", statusCode |-> 429],
      [class |-> "LLMError", statusCode |-> 0],
      [class |-> "string", statusCode |-> 0] }

NoError == [class |-> "none", statusCode |-> 0]

\* what the onRetry callback throws when it throws
CallbackError == [class |-> "CallbackError", statusCode |-> 0]

\* LLMError.isAuthError
isAuthError(error) == error.statusCode = 401 \/ error.statusCode = 403

\* error instanceof Error ? error : new Error(String(error))
AsError(error) == IF error.class = "string" THEN [error EXCEPT !.class = "Error"] ELSE error

\* options.maxRetries: absent (the default 3 applies) or a number
MaxRetriesInputs ==
    { [defined |-> FALSE, value |-> 0] } \cup { [defined |-> TRUE, value |-> n] : n \in 0..2 }

DEFAULT_BASE_DELAY == 1000
DEFAULT_MAX_DELAY == 30000

RECURSIVE Pow2(_)
Pow2(n) == IF n = 0 THEN 1 ELSE 2 * Pow2(n - 1)

\* Math.min(baseDelay * Math.pow(2, attempt), maxDelay)
BackoffDelay(attempt) ==
    IF DEFAULT_BASE_DELAY * Pow2(attempt) < DEFAULT_MAX_DELAY
    THEN DEFAULT_BASE_DELAY * Pow2(attempt)
    ELSE DEFAULT_MAX_DELAY

NoRetry ==
    [at |-> "idle", maxRetries |-> 0, onRetry |-> FALSE, attempt |-> 0, calls |-> 0,
     results |-> <<>>, lastError |-> NoError, delay |-> 0, returned |-> FALSE,
     thrown |-> NoError]

\* retryWithBackoff(fn, options), up to the await of the first fn()
RetryWithBackoff ==
    /\ retry.at = "idle"
    /\ \E maxRetries \in MaxRetriesInputs : \E onRetry \in BOOLEAN :
          retry' = [NoRetry EXCEPT !.at = "calling",
                                   !.maxRetries = IF maxRetries.defined THEN maxRetries.value ELSE 3,
                                   !.onRetry = onRetry,
                                   !.calls = 1]
    /\ UNCHANGED limiter
    /\ UNCHANGED <<policyVars, approvalVars, taskVars, toolVars>>

\* the catch block without the test for an auth error
RetryFailed_RetriesAuth(r, error, callbackThrows) ==
    IF r.attempt < r.maxRetries
    THEN IF r.onRetry /\ callbackThrows
         THEN [r EXCEPT !.at = "threw", !.lastError = AsError(error), !.thrown = CallbackError]
         ELSE [r EXCEPT !.at = "waiting", !.lastError = AsError(error),
                        !.delay = BackoffDelay(r.attempt)]
    ELSE [r EXCEPT !.at = "threw", !.lastError = AsError(error), !.attempt = r.attempt + 1,
                   !.thrown = AsError(error)]

\* the catch block for a rejection with error: an auth error is rethrown; a
\* retry is announced and awaited while attempt < maxRetries (onRetry may
\* throw, which leaves the function); after the last attempt the loop ends and
\* lastError is thrown
RetryFailed(r, error, callbackThrows) ==
    IF error.class = "LLMError" /\ isAuthError(error)
    THEN [r EXCEPT !.at = "threw", !.lastError = AsError(error), !.thrown = error]
    ELSE IF r.attempt < r.maxRetries
    THEN IF r.onRetry /\ callbackThrows
         THEN [r EXCEPT !.at = "threw", !.lastError = AsError(error), !.thrown = CallbackError]
         ELSE [r EXCEPT !.at = "waiting", !.lastError = AsError(error),
                        !.delay = BackoffDelay(r.attempt)]
    ELSE [r EXCEPT !.at = "threw", !.lastError = AsError(error), !.attempt = r.attempt + 1,
                   !.thrown = AsError(error)]

\* the awaited fn() settles
FnSettles ==
    /\ retry.at = "calling"
    /\ \E outcome \in FnOutcomes : \E callbackThrows \in BOOLEAN :
          retry' = IF outcome.class = "value"
                   THEN [retry EXCEPT !.at = "returned", !.returned = TRUE,
                                      !.results = Append(@, outcome)]
                   ELSE RetryFailed([retry EXCEPT !.results = Append(@, outcome)],
                                    outcome, callbackThrows)
    /\ UNCHANGED limiter
    /\ UNCHANGED <<policyVars, approvalVars, taskVars, toolVars>>

\* the backoff timer fires: attempt++, the loop test holds, fn is called again
BackoffElapsed ==
    /\ retry.at = "waiting"
    /\ retry' = [retry EXCEPT !.at = IF retry.attempt + 1 <= retry.maxRetries
                                      THEN "calling" ELSE "threw",
                              !.attempt = retry.attempt + 1,
                              !.calls = IF retry.attempt + 1 <= retry.maxRetries
                                        THEN retry.calls + 1 ELSE retry.calls,
                              !.thrown = IF retry.attempt + 1 <= retry.maxRetries
                                         THEN retry.thrown ELSE retry.lastError]
    /\ UNCHANGED limiter
    /\ UNCHANGED <<policyVars, approvalVars, taskVars, toolVars>>

\* the clock of the rate limiter in ticks: the window of one minute, the day
\* after which the cost is reset, and the last tick of the model
WindowTicks == 2
DayTicks == 4
MaxLimiterClock == 7

\* calls of processMessage that have passed canRequest and not yet recorded
MaxUnrecorded == 2

\* the costs recordRequest is called with, in cents (0.01 is the default)
CostInputs == {1, 2}

\* new RateLimiter({ maxRequestsPerMinute: 2, maxDailyCostUSD: 0.03 }) at tick 0
LimiterInit ==
    [requests |-> <<>>, maxRequests |-> 2, totalCost |-> 0, maxDailyCost |-> 3,
     costResetAt |-> DayTicks, now |-> 0, check |-> "none", checks |-> 0, unrecorded |-> 0]

\* cleanup(): the timestamps later than now - windowMs
cleanup(requests, time) == SelectSeq(requests, LAMBDA t : t > time - WindowTicks)

\* canRequest(), after cleanup: the rate test, then the cost test
canRequest(l) ==
    IF Len(cleanup(l.requests, l.now)) >= l.maxRequests THEN "rate limit"
    ELSE IF l.totalCost >= l.maxDailyCost THEN "cost limit"
    ELSE "allowed"

\* recordRequest(estimatedCostUSD)
recordRequest(l, cost) ==
    IF l.now > l.costResetAt
    THEN [l EXCEPT !.requests = Append(@, l.now), !.totalCost = 0,
                   !.costResetAt = l.now + DayTicks]
    ELSE [l EXCEPT !.requests = Append(@, l.now), !.totalCost = @ + cost]

\* time passes
LimiterTick ==
    /\ limiter.now < MaxLimiterClock
    /\ limiter' = [limiter EXCEPT !.now = @ + 1]
    /\ UNCHANGED retry
    /\ UNCHANGED <<policyVars, approvalVars, taskVars, toolVars>>

\* processMessage checks the rate limit; it goes on only when allowed
CanRequest ==
    /\ limiter.unrecorded < MaxUnrecorded
    /\ limiter' = [limiter EXCEPT !.requests = cleanup(limiter.requests, limiter.now),
                                  !.check = canRequest(limiter),
                                  !.checks = (@ + 1) % 2,
                                  !.unrecorded = IF canRequest(limiter) = "allowed"
                                                 THEN @ + 1 ELSE @]
    /\ UNCHANGED retry
    /\ UNCHANGED <<policyVars, approvalVars, taskVars, toolVars>>

\* processMessage, having been allowed, records its request
RecordRequest ==
    /\ limiter.unrecorded > 0
    /\ \E cost \in CostInputs :
          limiter' = [recordRequest(limiter, cost) EXCEPT !.unrecorded = @ - 1]
    /\ UNCHANGED retry
    /\ UNCHANGED <<policyVars, approvalVars, taskVars, toolVars>>

ErrInit ==
    /\ retry = NoRetry
    /\ limiter = LimiterInit

-----------------------------------------------------------------------------
(* Specifications                                                          *)

\* the approval manager as constructed, before any use
ApprovalUnused ==
    /\ bot = FALSE
    /\ allowedUsers = <<1>>
    /\ pending = <<>>
    /\ timers = {}
    /\ now = 1
    /\ calls = [k \in 1..MaxRequests |-> NotCalled]
    /\ nCalls = 0
    /\ answer = NoAnswer

\* the policy engine under every configuration
Init == PolicyInit(PolicyConfigs) /\ ApprovalUnused /\ TaskInit /\ ToolInit /\ ErrInit

Next ==
    \/ Evaluate
    \/ EvaluateForTask
    \/ CallerDone
    \/ EnterTaskMode
    \/ ExitTaskMode
    \/ PlantSymlink

Spec == Init /\ [][Next]_vars

\* the approval manager, beside a policy engine that is not called
InitApproval == PolicyInit({DefaultConfig}) /\ ApprovalInit /\ TaskInit /\ ToolInit /\ ErrInit

NextApproval ==
    \/ SetBot
    \/ RequestApproval
    \/ TextResponse
    \/ CallbackQuery
    \/ TimerFire
    \/ Cleanup
    \/ Tick
    \/ CallbackAnswered

SpecApproval == InitApproval /\ [][NextApproval]_vars

\* the same under the scheduling of the event loop: a handler that has started
\* returns, and however many messages and button presses arrive, time passes
\* and a timer whose delay has elapsed runs its callback between two handlers
SpecApprovalFair ==
    /\ SpecApproval
    /\ WF_vars(CallbackAnswered)
    /\ SF_vars(Tick)
    /\ SF_vars(TimerFire)

\* the task engine, over the policy engine of the default configuration; the
\* approval manager is seen through the promise its requestApproval returns
InitTask == PolicyInit({DefaultConfig}) /\ ApprovalUnused /\ TaskInit /\ ToolInit /\ ErrInit

NextTask ==
    \/ RegisterTools
    \/ SetProgressCallback
    \/ SetScreenshotCallback
    \/ PlanTask
    \/ ExecuteTask
    \/ WrapperEvaluates
    \/ ProgressDone
    \/ ProgressThrows
    \/ ScreenshotDone
    \/ ScreenshotThrows
    \/ ApprovalAnswered
    \/ ToolReturns
    \/ ToolThrows
    \/ Cancel
    \/ EnterTaskModeForPlan
    \/ ExitTaskMode

SpecTask == InitTask /\ [][NextTask]_vars

\* the tool wrappers and the audit log, under three configurations
InitTools == PolicyInit(ToolConfigs) /\ ApprovalUnused /\ TaskInit /\ ToolInit /\ ErrInit

NextTools ==
    \/ ToolInvoke
    \/ AuditWritten
    \/ ApprovalSettled
    \/ EffectDone
    \/ LogDecision

SpecTools == InitTools /\ [][NextTools]_vars

\* one retryWithBackoff call
InitRetry == PolicyInit({DefaultConfig}) /\ ApprovalUnused /\ TaskInit /\ ToolInit /\ ErrInit

NextRetry ==
    \/ RetryWithBackoff
    \/ FnSettles
    \/ BackoffElapsed

SpecRetry == InitRetry /\ [][NextRetry]_vars

\* the promise fn returns settles and the backoff timer fires
SpecRetryFair ==
    /\ InitRetry
    /\ [][NextRetry]_vars
    /\ WF_vars(FnSettles)
    /\ WF_vars(BackoffElapsed)

\* one rate limiter and the processMessage calls that use it
InitLimiter == PolicyInit({DefaultConfig}) /\ ApprovalUnused /\ TaskInit /\ ToolInit /\ ErrInit

NextLimiter ==
    \/ LimiterTick
    \/ CanRequest
    \/ RecordRequest

SpecLimiter == InitLimiter /\ [][NextLimiter]_vars

-----------------------------------------------------------------------------
(* Properties                                                              *)

\* an evaluate call on one of `tools` has just returned
Evaluated(tools) == pc = "returned" /\ call.op = "evaluate" /\ call.toolName \in tools

\* no risk override is in effect for the tool of the call
NoOverride == OverrideLookup(call.toolName) = Undefined

IsBlockedDecision == ~decision.allowed /\ decision.risk = "blocked"

\* the directories the engine allows: the allowed directories and the data directory
AllowedRoots ==
    { resolvedAllowedDirs[i] : i \in 1..Len(resolvedAllowedDirs) } \cup { Resolve(DataDir) }

\* directory-tree containment: absPath is one of the allowed roots or lies beneath one
IsBeneathAllowed(absPath) ==
    \E dir \in AllowedRoots : absPath = dir \/ StartsWith(absPath, dir \o <<"/">>)

\* path with a leading ~ expanded, absolute and normalised, links not followed
Textual(path) ==
    Resolve(IF path # <<>> /\ Head(path) = "~" THEN HomeDir \o Tail(path) ELSE path)

\* C1: every decision returned by evaluate and by evaluateForTask satisfies
\* risk = blocked => allowed = false, and requiresApproval => allowed
C1_DecisionInvariant ==
    pc = "returned" =>
        /\ decision.risk = "blocked" => ~decision.allowed
        /\ decision.requiresApproval => decision.allowed

\* both sides of C1 occur: under a risk override and in task mode evaluateForTask
\* returns a decision that requires approval
C1_Witness ==
    /\ pc = "returned"
    /\ call.op = "evaluateForTask"
    /\ taskMode.active
    /\ ~NoOverride
    /\ decision.requiresApproval
    /\ decision.allowed

\* C2: a requestApproval call resolves to true only through an accept signal
\* carrying its id, or an affirmative word matched to it, from an authorized
\* user while the request was pending
C2_TrueOnlyByAuthorizedAccept ==
    \A k \in 1..MaxRequests :
        (calls[k].state = "resolved" /\ calls[k].value) =>
            /\ calls[k].cause.via \in {"callback", "text"}
            /\ IsAllowedUser(calls[k].cause.by)
            /\ calls[k].cause.wasPending
            /\ calls[k].cause.signalId = k
            /\ calls[k].cause.via = "callback" => calls[k].cause.signal = "approve"
            /\ calls[k].cause.via = "text" => calls[k].cause.signal = "yes"

\* one request was approved by an authorized user and another was denied
C2_Witness ==
    \E k, j \in 1..MaxRequests :
        /\ calls[k].state = "resolved" /\ calls[k].value
        /\ calls[j].state = "resolved" /\ ~calls[j].value
        /\ calls[j].cause.via \in {"timeout", "callback", "text"}

\* C3: without a risk override, read_file and write_file on a path whose resolved
\* form is neither an allowed directory nor beneath one are blocked
C3_OutsideAllowedIsBlocked ==
    ( /\ Evaluated({"read_file", "write_file"})
      /\ NoOverride
      /\ ~IsBeneathAllowed(resolvePath(call.args.path)) )
    => IsBlockedDecision

\* the path passes through a planted link whose target is outside the allowed roots
ThroughEscapingLink(path) ==
    \E l \in symlinks :
        /\ StartsWith(Textual(path), l[1] \o <<"/">>)
        /\ ~IsBeneathAllowed(l[2])

\* C4: a path textually inside an allowed directory that passes through a symlink
\* leading outside is blocked for read_file and write_file, whether or not its
\* last component exists
C4_SymlinkEscapeIsBlocked ==
    ( /\ Evaluated({"read_file", "write_file"})
      /\ NoOverride
      /\ IsBeneathAllowed(Textual(call.args.path))
      /\ ThroughEscapingLink(call.args.path) )
    => IsBlockedDecision

\* C5: no configuration makes evaluate allow a file operation on a path that
\* matches a hardcoded blocked path pattern, or a run_command whose command
\* contains a hardcoded blocked substring; stated for the tools a risk override
\* is configured for
C5_DenyListNotOverridable ==
    ( /\ Evaluated({"delete_file", "run_command"})
      /\ ~NoOverride
      /\ \/ /\ call.toolName = "delete_file"
            /\ isBlockedPath(resolvePath(call.args.path))
         \/ /\ call.toolName = "run_command"
            /\ \E i \in 1..Len(BLOCKED_COMMANDS) :
                  Includes(call.args.command, BLOCKED_COMMANDS[i]) )
    => ~decision.allowed

\* C6: delete_file on a path inside an allowed directory and not deny-listed is
\* high risk and requires approval under every configuration
C6_DeleteAlwaysHigh ==
    ( /\ Evaluated({"delete_file"})
      /\ IsBeneathAllowed(resolvePath(call.args.path))
      /\ ~isBlockedPath(resolvePath(call.args.path)) )
    => (decision.risk = "high" /\ decision.requiresApproval)

\* C7: a tool name that is not one of the ten known ones is blocked under every
\* configuration
C7_UnknownToolIsBlocked ==
    ( /\ pc = "returned"
      /\ call.op = "evaluate"
      /\ call.toolName \notin KnownTools )
    => IsBlockedDecision

\* the path arguments the tools of the call takes
PathArguments ==
    CASE call.toolName \in {"read_file", "write_file", "list_directory", "delete_file"} ->
            { call.args.path }
      [] call.toolName = "search_files"  -> { Or(call.args.directory, call.args.path) }
      [] call.toolName = "move_file"     -> { call.args.from, call.args.to }
      [] call.toolName = "download_file" -> { call.args.savePath }
      [] OTHER -> {}

\* C8: without a risk override, every operation that takes a path argument is
\* blocked when a path argument matches the sensitive-path deny-list, also inside
\* an allowed directory
C8_DenyListOnEveryPathArgument ==
    ( /\ pc = "returned"
      /\ call.op = "evaluate"
      /\ NoOverride
      /\ \E p \in PathArguments : isBlockedPath(resolvePath(p)) )
    => IsBlockedDecision

\* C9: without a risk override, run_command is blocked for every command string
\* that contains a hardcoded or configured deny-listed substring at any position
C9_DenyListedCommandIsBlocked ==
    ( /\ Evaluated({"run_command"})
      /\ NoOverride
      /\ \/ \E i \in 1..Len(BLOCKED_COMMANDS) :
               Includes(call.args.command, BLOCKED_COMMANDS[i])
         \/ \E i \in 1..Len(config.blocked_commands) :
               Includes(call.args.command, config.blocked_commands[i]) )
    => IsBlockedDecision

Beneath(absPath, dir) == absPath = dir \/ StartsWith(absPath, dir \o <<"/">>)

\* the locations an operation touches: its path, the source and destination of
\* a move, the save path of a download, and the cwd of a command
TouchedLocations(toolName, args) ==
    ( {args.path, args.from, args.to, args.savePath}
      \cup (IF toolName = "run_command" THEN {args.cwd} ELSE {}) ) \ {<<>>}

\* d is e, or e with requiresApproval turned from true to false (and the reason
\* annotated) for a medium risk in an active scope that holds every location
ElevationBounded(e, d, toolName, args) ==
    /\ ~taskMode.active => d = e
    /\ d # e =>
          /\ taskMode.active
          /\ d.allowed = e.allowed
          /\ d.risk = e.risk
          /\ e.requiresApproval
          /\ ~d.requiresApproval
          /\ e.risk = "medium"
          /\ \A loc \in TouchedLocations(toolName, args) :
                Beneath(resolvePath(loc), taskMode.workingDir)

\* C11: evaluateForTask differs from evaluate only by turning requiresApproval
\* from true to false, only in an active scope, for medium risk, and only when
\* every location the operation touches resolves to the scope's working
\* directory or beneath it; with no active scope it returns evaluate's decision
C11_ElevationBoundedToScope ==
    (pc = "returned" /\ call.op = "evaluateForTask")
    => ElevationBounded(evaluate(call.toolName, call.args), decision,
                        call.toolName, call.args)

\* evaluateForTask(write_file, {path: D/x}) has returned in the scope D, with D
\* inside an allowed directory and require_approval_for_writes = true
WriteInScope ==
    /\ pc = "returned"
    /\ call.op = "evaluateForTask"
    /\ call.toolName = "write_file"
    /\ taskMode.active
    /\ IsBeneathAllowed(taskMode.workingDir)
    /\ config.require_approval_for_writes
    /\ call.args.path # <<>>
    /\ Textual(call.args.path) # taskMode.workingDir
    /\ Beneath(Textual(call.args.path), taskMode.workingDir)

AutoApprovedMedium == decision.allowed /\ decision.risk = "medium" /\ ~decision.requiresApproval

RequestIds == 1..MaxRequests

\* every request is in the pending table exactly while its promise is
\* unsettled, resolve has run at most once on it, and a timeout notice went
\* out at most once and only for a request the timer itself resolved
ResolvedOnce ==
    \A id \in RequestIds :
        /\ MapHas(pending, id) <=> calls[id].state = "pending"
        /\ Len(SelectSeq(pending, LAMBDA x : x = id)) <= 1
        /\ calls[id].resolveCalls <= 1
        /\ calls[id].state = "pending" => calls[id].resolveCalls = 0
        /\ (calls[id].state = "resolved" /\ calls[id].cause.via # "autodeny")
              => calls[id].resolveCalls = 1
        /\ calls[id].timeoutNotices = (IF calls[id].cause.via = "timeout" THEN 1 ELSE 0)

\* an event for a request that is resolved changes nothing about it
ResolvedIsFinal ==
    \A id \in RequestIds :
        calls[id].state = "resolved" => (calls'[id] = calls[id] /\ ~MapHas(pending', id))

\* C15: under every interleaving of callbacks, text replies, timer expiry and
\* cleanup, each request is resolved exactly once and leaves the pending table
\* in the step that resolves it; a later event for its id changes nothing and
\* sends no timeout notice
C15_ResolvedExactlyOnce == []ResolvedOnce /\ [][ResolvedIsFinal]_vars

\* a request a user accepted, whose timer has fired afterwards
C15_Witness ==
    \E id \in RequestIds :
        /\ calls[id].state = "resolved"
        /\ calls[id].cause.via = "callback"
        /\ id \notin timers
        /\ now >= calls[id].createdAt + TimeoutTicks
        /\ calls[id].resolveCalls = 1
        /\ calls[id].timeoutNotices = 0

\* C16: a request registered as pending is eventually resolved and out of the
\* pending table, and a request no signal and no text resolved is denied
C16_PendingEventuallyDenied ==
    /\ \A id \in RequestIds :
          (calls[id].state = "pending")
              ~> (calls[id].state = "resolved" /\ ~MapHas(pending, id))
    /\ [](\A id \in RequestIds :
             (calls[id].state = "resolved" /\ calls[id].cause.via \notin {"callback", "text"})
                 => ~calls[id].value)

\* a request that was pending and that its timer has denied
C16_Witness ==
    \E id \in RequestIds :
        /\ calls[id].state = "resolved"
        /\ calls[id].cause.via = "timeout"
        /\ ~calls[id].value
        /\ ~MapHas(pending, id)

\* the text is an affirmative or a negative word
IsYesWord(text) == ToLowerCase(Trim(text)) \in YES_WORDS

IsNoWord(text) == ToLowerCase(Trim(text)) \in NO_WORDS

\* the pending request created last: ids are handed out in creation order
LastCreatedPending == CHOOSE id \in RequestIds :
    MapHas(pending, id) /\ \A other \in RequestIds : MapHas(pending, other) => other <= id

\* C17: when an authorized user sends an affirmative or negative word while
\* requests are pending, exactly one request is resolved, true for affirmative
\* and false for negative, and it is the pending request created last; every
\* other request stays as it was
C17_TextResolvesLastCreated ==
    [][ \A userId \in UserIds \ {0} : \A text \in TextInputs :
          ( /\ answer = NoAnswer
            /\ pending # <<>>
            /\ IsAllowedUser(userId)
            /\ IsYesWord(text) \/ IsNoWord(text)
            /\ HandleTextResponse(userId, text)
            /\ UNCHANGED <<bot, allowedUsers, timers, now, nCalls, answer>> )
          => /\ calls'[LastCreatedPending].state = "resolved"
             /\ calls'[LastCreatedPending].value = IsYesWord(text)
             /\ pending' = MapDelete(pending, LastCreatedPending)
             /\ \A id \in RequestIds \ {LastCreatedPending} : calls'[id] = calls[id]
      ]_vars

\* the answers of the callback handler agree with the table: "no access" goes
\* to a user outside the authorized set about a request that is still pending
\* and unresolved, an accept or reject is acknowledged only to an authorized
\* user, and "already handled" is about an id that is not pending
AnswerMatchesTable ==
    /\ answer.text = NO_ACCESS =>
          /\ ~IsAllowedUser(answer.by)
          /\ MapHas(pending, answer.id)
          /\ calls[answer.id].state = "pending"
          /\ calls[answer.id].resolveCalls = 0
    /\ answer.text \in {APPROVED, REJECTED} =>
          /\ IsAllowedUser(answer.by)
          /\ calls[answer.id].state = "resolved"
          /\ calls[answer.id].cause.by = answer.by
    /\ answer.text = ALREADY_HANDLED => ~MapHas(pending, answer.id)

\* a signal that is not honoured changes neither the table nor any request,
\* and an answered signal for an id that is not pending is "already handled"
UnhonouredSignalIsNoOp ==
    (answer = NoAnswer /\ answer' # NoAnswer) =>
        /\ answer'.text \in {NO_ACCESS, ALREADY_HANDLED}
              => UNCHANGED <<pending, calls, timers>>
        /\ ~MapHas(pending, answer'.id) => answer'.text = ALREADY_HANDLED

\* C18: a structured accept/reject signal is honoured only from a user in the
\* authorized set, a signal from another user leaves the request pending and
\* unresolved, and a signal for an id that is no longer pending is a no-op
\* that reports "already handled"
C18_UnauthorizedOrStaleSignal == []AnswerMatchesTable /\ [][UnhonouredSignalIsNoOp]_vars

\* a user outside the authorized set has pressed a button of a pending
\* request, after another request was resolved: the request is still pending
C18_Witness ==
    /\ answer.text = NO_ACCESS
    /\ calls[answer.id].state = "pending"
    /\ \E id \in RequestIds : calls[id].state = "resolved" /\ calls[id].resolveCalls = 1

-----------------------------------------------------------------------------
(* The task-mode scope and the task engine                                  *)

\* the plans that exist
PlanIds == 1..MaxPlans

\* the statuses executeTask and cancel() leave a plan in
FinalStatuses == {"completed", "failed", "cancelled"}

\* the scope the policy engine holds was entered for plan p
ScopeOf(p) == taskMode.active /\ taskMode.taskId = TaskIdOf(p)

\* C13: the task-mode scope does not outlive its task: once executeTask has
\* returned with the plan completed or failed, or cancel() has been called on
\* it, the policy engine holds no active scope for that plan
C13_ScopeDoesNotOutliveTask ==
    \A p \in PlanIds : plans[p].status \in FinalStatuses => ~ScopeOf(p)

\* the locations the step i of a plan works on, as the executor receives them
StepLocations(plan, i) ==
    { resolvePath(l) : l \in TouchedLocations(StepTool(plan.steps[i].kind),
                                              ExecutorArgs(plan, i)) }

\* run r stands in a step that is classified medium, in the active scope of
\* its plan, with every location beneath the plan's working directory
MediumStepInScope(r) ==
    /\ runs[r].plan # 0
    /\ runs[r].i \in 1..Len(plans[runs[r].plan].steps)
    /\ runs[r].decision.risk = "medium"
    /\ ScopeOf(runs[r].plan)
    /\ StepLocations(plans[runs[r].plan], runs[r].i) # {}
    /\ \A l \in StepLocations(plans[runs[r].plan], runs[r].i) :
          Beneath(l, resolvePath(plans[runs[r].plan].workingDir))

\* C14: during executeTask of an approved plan, a step whose operation is
\* classified medium and whose path or cwd lies inside the plan's working
\* directory never suspends waiting for a human decision
C14_InScopeStepNeverAwaitsApproval ==
    \A r \in 1..MaxRuns : MediumStepInScope(r) => runs[r].at # "approval"

\* the plans whose status is running
RunningPlans == { p \in PlanIds : plans[p].status = "running" }

\* C19: single active task: in every reachable state at most one plan has
\* status running, under any interleaving of planTask, executeTask and cancel
C19_SingleRunningPlan == Cardinality(RunningPlans) <= 1

\* one step of the program respects the state machine of plan p: running is
\* entered only from awaiting_approval, and a final status is kept
StatusMovesForward(p) ==
    /\ (plans'[p].status = "running" /\ plans[p].status # "running")
          => plans[p].status = "awaiting_approval"
    /\ plans[p].status \in FinalStatuses => plans'[p].status = plans[p].status

\* C20: a plan's status only moves along awaiting_approval -> running ->
\* {completed, failed, cancelled}: running is entered only from
\* awaiting_approval, and a completed, failed or cancelled plan keeps its status
C20_StatusOnlyMovesForward == [][\A p \in PlanIds : StatusMovesForward(p)]_vars

\* the steps of plan p whose status is running
RunningSteps(p) ==
    { k \in 1..Len(plans[p].steps) : plans[p].steps[k].status = "running" }

\* C21: cancellation is cooperative: after cancel() was called while
\* executeTask was suspended in a step, that step may finish but no later step
\* is started: a cancelled plan has no step in status running
C21_NoStepStartsAfterCancel ==
    \A p \in PlanIds : plans[p].status = "cancelled" => RunningSteps(p) = {}

\* what cancel() does to the step before of the current plan
CancelledStep(before) ==
    IF before.status \in {"pending", "running"}
    THEN [before EXCEPT !.status = "skipped"]
    ELSE before

\* the effect and the frame of one cancel() call
CancelEffect ==
    /\ UNCHANGED <<currentTask, nPlans, runs, nRuns, toolExecutors, onProgress, onScreenshot>>
    /\ UNCHANGED <<policyVars, approvalVars, toolVars, errVars>>
    /\ IF currentTask = 0
       THEN plans' = plans
       ELSE /\ plans'[currentTask].status = "cancelled"
            /\ Len(plans'[currentTask].steps) = Len(plans[currentTask].steps)
            /\ \A k \in 1..Len(plans[currentTask].steps) :
                  plans'[currentTask].steps[k] = CancelledStep(plans[currentTask].steps[k])
            /\ plans'[currentTask].workingDir = plans[currentTask].workingDir
            /\ plans'[currentTask].error = plans[currentTask].error
            /\ plans'[currentTask].completedAt = plans[currentTask].completedAt
            /\ \A q \in PlanIds \ {currentTask} : plans'[q] = plans[q]

\* C22: cancel() sets the current plan's status to cancelled and every pending
\* or running step to skipped, leaves the status, result and error of every
\* completed or failed step unchanged, and changes nothing without a current plan
C22_CancelFrame == [][Cancel => CancelEffect]_vars

\* a cancelled plan that keeps a completed step with its result beside a
\* skipped one
C22_Witness ==
    \E p \in PlanIds :
        /\ plans[p].status = "cancelled"
        /\ \E k \in 1..Len(plans[p].steps) :
              plans[p].steps[k].status = "completed" /\ plans[p].steps[k].result # <<>>
        /\ \E k \in 1..Len(plans[p].steps) : plans[p].steps[k].status = "skipped"

\* C23: the steps of a plan execute strictly in sequence: at most one step of
\* a plan has status running, and every step before a running one has reached
\* a terminal status
C23_StepsInSequence ==
    \A p \in PlanIds :
        /\ Cardinality(RunningSteps(p)) <= 1
        /\ \A k \in RunningSteps(p) : \A j \in 1..(k - 1) :
              plans[p].steps[j].status \in {"completed", "failed", "skipped"}

\* plan p was failed by its critical step k returning a rejection
FailedByRejection(p, k) ==
    /\ plans[p].status = "failed"
    /\ StepTool(plans[p].steps[k].kind) \in CriticalTools
    /\ IndicatesRejection(plans[p].steps[k].result)
    /\ plans[p].error = StepFailedError(k, plans[p].steps[k].result)

\* C24: when a write_file or run_command step returns a result with a
\* rejection phrase, the plan is failed, no later step is executed and every
\* later step is marked skipped
C24_RejectionSkipsLaterSteps ==
    \A p \in PlanIds : \A k \in 1..Len(plans[p].steps) :
        FailedByRejection(p, k) =>
            \A j \in (k + 1)..Len(plans[p].steps) : plans[p].steps[j].status = "skipped"

\* step k of plan p names a tool without executor (a screenshot step is
\* handled before the executor is looked up)
NamesUnknownTool(p, k) ==
    /\ k \in 1..Len(plans[p].steps)
    /\ StepTool(plans[p].steps[k].kind) \notin toolExecutors \cup {"screenshot"}

\* this step of the program records an error on step k of plan p
ErrorRecorded(p, k) ==
    /\ k \in 1..Len(plans'[p].steps)
    /\ plans'[p].steps[k].error # plans[p].steps[k].error

\* the activation r has gone past step k: it stands in a later step that it
\* has started, or it has left the loop and returned
GoesOnAfter(r, k) ==
    /\ runs'[r] # runs[r]
    /\ runs'[r].i > k
    /\ IF runs'[r].i <= Len(plans'[runs'[r].plan].steps)
       THEN /\ plans'[runs'[r].plan].steps[runs'[r].i].status = "running"
            /\ runs'[r].at \notin {"returned", "threw"}
       ELSE /\ runs'[r].at = "returned"
            /\ plans'[runs'[r].plan].status # "running"

\* C25: a step that names a tool without executor is marked failed with an
\* error and the task is not aborted: the plan is not failed by it and the
\* activation goes on with the next step
C25_UnknownToolDoesNotAbort ==
    [][\A p \in PlanIds : \A k \in 1..2 :
          (NamesUnknownTool(p, k) /\ ErrorRecorded(p, k)) =>
              /\ plans'[p].steps[k].status = "failed"
              /\ plans'[p].steps[k].error # <<>>
              /\ plans'[p].status = "failed" => plans[p].status = "failed"
              /\ \E r \in 1..MaxRuns : runs'[r].plan = p /\ GoesOnAfter(r, k)]_vars

\* a plan that ends completed although its first step named an unknown tool
C25_Witness ==
    \E p \in PlanIds :
        /\ plans[p].status = "completed"
        /\ Len(plans[p].steps) = 2
        /\ toolExecutors # {}
        /\ StepTool(plans[p].steps[1].kind) \notin toolExecutors \cup {"screenshot"}
        /\ plans[p].steps[1].status = "failed"
        /\ plans[p].steps[2].status = "completed"

\* C26: a step failure is classified by tool kind: the task is failed by a
\* step that returned a rejection or threw only if the step's tool is
\* write_file or run_command
C26_FailureClassifiedByTool ==
    \A p \in PlanIds : \A k \in 1..Len(plans[p].steps) :
        ( /\ plans[p].status = "failed"
          /\ plans[p].steps[k].status = "failed"
          /\ plans[p].error \in { StepFailedError(k, plans[p].steps[k].result),
                                  StepCrashedError(k, plans[p].steps[k].error) } )
        => StepTool(plans[p].steps[k].kind) \in CriticalTools

-----------------------------------------------------------------------------
(* The audit log and the tool wrappers: properties                          *)

\* the JSON grammar, read character by character: each scanner returns the
\* index after what it has read, or 0 when the text is not of that form
RECURSIVE ScanChars(_, _)
ScanChars(s, i) ==
    IF i > Len(s) THEN 0
    ELSE IF s[i] = Quote THEN i + 1
    ELSE IF s[i] = Backslash
         THEN IF i + 1 <= Len(s) /\ s[i + 1] \in {Quote, Backslash, "/", "b", "f", "n", "r", "t"}
              THEN ScanChars(s, i + 2)
              ELSE 0
    ELSE IF s[i] \in {NewLine, "\t"} THEN 0
    ELSE ScanChars(s, i + 1)

RECURSIVE ScanDigits(_, _)
ScanDigits(s, i) == IF i <= Len(s) /\ s[i] \in Digits THEN ScanDigits(s, i + 1) ELSE i

RECURSIVE ScanValue(_, _)
RECURSIVE ScanMembers(_, _)
ScanMembers(s, i) ==
    IF i > Len(s) \/ s[i] # Quote THEN 0
    ELSE IF ScanChars(s, i + 1) = 0 \/ ScanChars(s, i + 1) > Len(s) THEN 0
    ELSE IF s[ScanChars(s, i + 1)] # ":" THEN 0
    ELSE IF ScanValue(s, ScanChars(s, i + 1) + 1) = 0
            \/ ScanValue(s, ScanChars(s, i + 1) + 1) > Len(s) THEN 0
    ELSE IF s[ScanValue(s, ScanChars(s, i + 1) + 1)] = ","
         THEN ScanMembers(s, ScanValue(s, ScanChars(s, i + 1) + 1) + 1)
    ELSE IF s[ScanValue(s, ScanChars(s, i + 1) + 1)] = "}"
         THEN ScanValue(s, ScanChars(s, i + 1) + 1) + 1
    ELSE 0

ScanValue(s, i) ==
    IF i > Len(s) THEN 0
    ELSE IF s[i] = Quote THEN ScanChars(s, i + 1)
    ELSE IF s[i] \in Digits THEN ScanDigits(s, i)
    ELSE IF s[i] = "{"
         THEN IF i + 1 <= Len(s) /\ s[i + 1] = "}" THEN i + 2 ELSE ScanMembers(s, i + 1)
    ELSE 0

\* the text is one JSON object and nothing else
WellFormedJsonObject(s) == s # <<>> /\ s[1] = "{" /\ ScanValue(s, 1) = Len(s) + 1

\* the position of the k-th newline of the log, 0 for k = 0
NewLineAt(file, k) ==
    IF k = 0 THEN 0
    ELSE CHOOSE i \in 1..Len(file) :
            /\ file[i] = NewLine
            /\ Cardinality({j \in 1..i : file[j] = NewLine}) = k

\* the complete lines of the log (those ended by a newline)
AuditLines(file) ==
    [k \in 1..Cardinality({j \in 1..Len(file) : file[j] = NewLine}) |->
        SubSeq(file, NewLineAt(file, k - 1) + 1, NewLineAt(file, k) - 1)]

\* what a step has added to the log
Appended == SubSeq(auditFile', Len(auditFile) + 1, Len(auditFile'))

\* C28 (as stated): every audit call appends exactly one well-formed JSON
\* line: the log has as many complete lines as audit calls have been made,
\* and every one of them is a JSON object.
C28_EveryCallAppendsOneLine ==
    /\ Len(AuditLines(auditFile)) = Len(auditCalls)
    /\ \A k \in 1..Len(AuditLines(auditFile)) : WellFormedJsonObject(AuditLines(auditFile)[k])

\* C28 (amended): an audit call never modifies or removes what the log holds:
\* the log only grows at its end.  A call whose write succeeds appends exactly
\* the text of one well-formed JSON object followed by a newline; any other
\* call appends no complete line.  When the writes of all N calls made so far
\* have succeeded, the log consists of exactly N well-formed lines and the
\* k-th line is the one of the k-th call.
C28_AppendOnlyLog ==
    [][\A added \in {Appended} : \A lines \in {AuditLines(auditFile')} :
       /\ Len(auditFile') >= Len(auditFile)
       /\ SubSeq(auditFile', 1, Len(auditFile)) = auditFile
       /\ auditCalls' = auditCalls => auditFile' = auditFile
       /\ auditCalls' # auditCalls =>
             /\ Len(auditCalls') = Len(auditCalls) + 1
             /\ SubSeq(auditCalls', 1, Len(auditCalls)) = auditCalls
             /\ IF auditCalls'[Len(auditCalls')].outcome = "written"
                THEN /\ added # <<>>
                     /\ added[Len(added)] = NewLine
                     /\ \A text \in {SubSeq(added, 1, Len(added) - 1)} :
                           WellFormedJsonObject(text)
                ELSE \A k \in 1..Len(added) : added[k] # NewLine
       /\ (\A k \in 1..Len(auditCalls') : auditCalls'[k].outcome = "written") =>
             /\ Len(lines) = Len(auditCalls')
             /\ \A k \in 1..Len(lines) : \A line \in {lines[k]} :
                   /\ WellFormedJsonObject(line)
                   /\ Includes(line, Timestamp(k))]_vars

\* three awaited calls whose writes succeeded, one of them with characters
\* that JSON must escape, have left three lines
C28_Witness ==
    /\ Len(auditCalls) = 3
    /\ \A k \in 1..3 : auditCalls[k].outcome = "written"
    /\ Len(AuditLines(auditFile)) = 3
    /\ Includes(auditFile, <<Backslash, Quote>>)
    /\ Includes(auditFile, <<Backslash, "n">>)

\* C29: audit and logDecision complete without throwing or rejecting whatever
\* goes wrong while the line is produced or written: no audit call has thrown.
C29_AuditNeverThrows ==
    \A k \in 1..Len(auditCalls) : auditCalls[k].outcome # "threw"

\* the outcomes of a decision that a wrapper logs
DecisionOutcomes == {"denied", "rejected", "approved", "allowed"}

\* C27: a tool wrapper performs the tool's effect only if the decision it
\* obtained has allowed = true and, when the decision has requiresApproval =
\* true, only after the approval request has returned true; a denied decision
\* or a false approval result ends the call with a refusal and no effect.
C27_EffectOnlyIfAllowedAndApproved ==
    /\ (inv.effect \/ inv.at = "effect") =>
          /\ inv.decision.allowed
          /\ inv.decision.requiresApproval => (inv.asked /\ inv.approved)
    /\ (inv.at = "returned" /\ (~inv.decision.allowed \/ (inv.asked /\ ~inv.approved))) =>
          /\ ~inv.effect
          /\ inv.ret \in {"denied", "rejected"}

\* C30: a tool invocation that has obtained a policy decision and returned has
\* logged the outcome of that decision (denied, rejected, approved or
\* allowed), and has logged it before any entry for the execution result.
C30_DecisionLoggedBeforeReturn ==
    inv.at = "returned" =>
        /\ inv.logged # <<>>
        /\ inv.logged[1] \in DecisionOutcomes

-----------------------------------------------------------------------------
(* planTask, the classification tables, retry and rate limiting: properties *)

\* a step the planner's output spelled out: it has a tool and a description
ParseableStep(step) == step.kind # "blank"

\* C31: planTask either fails and leaves the tracked plan as it was, or
\* returns a new tracked plan in status awaiting_approval with at least one
\* step, every step pending; it fails when the planner's output has no
\* parseable step, so the plan it returns holds at least one.
C31_PlanHasParseableStep ==
    [][IF nPlans' = nPlans
       THEN \A p \in PlanIds : plans[p].status = "none" => plans'[p].status = "none"
       ELSE /\ nPlans' = nPlans + 1
            /\ currentTask' = nPlans'
            /\ plans'[nPlans'].status = "awaiting_approval"
            /\ Len(plans'[nPlans'].steps) >= 1
            /\ \A k \in 1..Len(plans'[nPlans'].steps) :
                  plans'[nPlans'].steps[k].status = "pending"
            /\ \E k \in 1..Len(plans'[nPlans'].steps) :
                  ParseableStep(plans'[nPlans'].steps[k])]_vars

\* what the call recorded in the state returns when it is made again
SameCallAgain ==
    IF call.op = "evaluate"
    THEN evaluate(call.toolName, call.args)
    ELSE evaluateForTask(call.toolName, call.args)

PlainCommand ==
    /\ Evaluated({"run_command"})
    /\ NoOverride
    /\ config.shell_enabled
    /\ \A i \in 1..Len(BLOCKED_COMMANDS) : ~Includes(call.args.command, BLOCKED_COMMANDS[i])
    /\ \A i \in 1..Len(config.blocked_commands) :
          ~Includes(call.args.command, config.blocked_commands[i])
    /\ ~ShellInjection(call.args.command)

\* the last component of a program path
BaseName(word) == Split(word, "/")[Len(Split(word, "/"))]

\* the words of the command begin with the words of a safe-listed command,
\* the program being named with or without a directory
InvokesSafeListed(command) ==
    \E i \in 1..Len(SAFE_COMMANDS) :
        /\ Len(Split(Trim(command), " ")) >= Len(Split(SAFE_COMMANDS[i], " "))
        /\ BaseName(Split(Trim(command), " ")[1]) = Split(SAFE_COMMANDS[i], " ")[1]
        /\ \A k \in 2..Len(Split(SAFE_COMMANDS[i], " ")) :
              Split(Trim(command), " ")[k] = Split(SAFE_COMMANDS[i], " ")[k]

\* C33: with the shell enabled and no override, a command without a
\* deny-listed substring and without an injection pattern is allowed with
\* risk low and no approval when it is an invocation of a safe-listed command,
\* and allowed with risk medium and approval required otherwise.
C33_SafeListedLowOtherwiseMedium ==
    PlainCommand =>
        /\ decision.allowed
        /\ IF InvokesSafeListed(call.args.command)
           THEN decision.risk = "low" /\ ~decision.requiresApproval
           ELSE decision.risk = "medium" /\ decision.requiresApproval

\* the command chains a further command with ; && or ||
ChainsFurtherCommand(command) ==
    \/ Includes(command, <<";">>)
    \/ Includes(command, <<"&","&">>)
    \/ Includes(command, <<"|","|">>)

\* C38: run_command is low without approval only for a single invocation of
\* a safe-listed command: a command without a deny-listed substring and
\* without an injection pattern that chains a further command with ; && or ||
\* is classified medium and requires approval.
C38_ChainedCommandIsMedium ==
    (PlainCommand /\ ChainsFurtherCommand(call.args.command)) =>
        /\ decision.risk = "medium"
        /\ decision.requiresApproval

\* the host as the URL spells it: the text between "//" and the next "/"
WrittenHost(url) ==
    IF Includes(url, <<":","/","/">>)
    THEN SubSeq(SubSeq(url, FirstOf(url, {":"}) + 3, Len(url)), 1,
                FirstOf(SubSeq(url, FirstOf(url, {":"}) + 3, Len(url)), {"/"}) - 1)
    ELSE <<>>

\* a loopback host: localhost, an address of 127.0.0.0/8, or ::1
LoopbackHost(host) ==
    \/ host \in { <<"l","o","c","a","l","h","o","s","t">>, <<"[",":",":","1","]">> }
    \/ StartsWith(host, <<"1","2","7",".">>)

\* an address of 10.0.0.0/8, 192.168.0.0/16 or 169.254.0.0/16
PrivateHost(host) ==
    \/ StartsWith(host, <<"1","0",".">>)
    \/ StartsWith(host, <<"1","9","2",".","1","6","8",".">>)
    \/ StartsWith(host, <<"1","6","9",".","2","5","4",".">>)

\* an address written as one octal, hexadecimal or large decimal number
ObfuscatedHost(host) ==
    \/ Len(host) >= 2 /\ host[1] = "0" /\ host[2] \in OctalDigits
    \/ /\ Len(host) >= 3
       /\ SubSeq(host, 1, 2) = <<"0","x">>
       /\ \A i \in 3..Len(host) : host[i] \in HexDigits
    \/ Len(host) >= 8 /\ \A i \in 1..Len(host) : host[i] \in Digits

\* C34: with the browser enabled and no override, fetch_page is blocked for
\* every URL that is malformed, uses the file: scheme, or whose host is
\* loopback, private or link-local, a numeric-obfuscated address, or ends in
\* .local or .internal.
C34_SuspiciousUrlIsBlocked ==
    ( /\ Evaluated({"fetch_page"})
      /\ NoOverride
      /\ config.browser_enabled
      /\ \/ ~ParseUrl(call.args.url).ok
         \/ StartsWith(call.args.url, <<"f","i","l","e",":">>)
         \/ LoopbackHost(WrittenHost(call.args.url))
         \/ PrivateHost(WrittenHost(call.args.url))
         \/ ObfuscatedHost(WrittenHost(call.args.url))
         \/ EndsWith(WrittenHost(call.args.url), <<".","l","o","c","a","l">>)
         \/ EndsWith(WrittenHost(call.args.url), <<".","i","n","t","e","r","n","a","l">>) )
    => IsBlockedDecision

\* an attempt of fn that failed with an auth error (LLMError 401 or 403)
AuthFailure(outcome) == outcome.class = "LLMError" /\ isAuthError(outcome)

\* what holds of a retryWithBackoff call at every moment
RetrySafety ==
    retry.at # "idle" =>
        /\ retry.calls <= retry.maxRetries + 1
        /\ Len(retry.results) <= retry.calls
        /\ \A i \in 1..Len(retry.results) :
              (retry.results[i].class = "value" \/ AuthFailure(retry.results[i])) =>
                  /\ i = Len(retry.results)
                  /\ retry.calls = i
                  /\ retry.at = IF retry.results[i].class = "value" THEN "returned" ELSE "threw"
                  /\ AuthFailure(retry.results[i]) => retry.thrown = retry.results[i]
        /\ retry.at = "returned" =>
              /\ retry.results # <<>>
              /\ retry.results[Len(retry.results)].class = "value"
        /\ Len(retry.results) = retry.maxRetries + 1 =>
              /\ retry.at \in {"returned", "threw"}
              /\ (/\ retry.results[Len(retry.results)].class # "value"
                  /\ ~AuthFailure(retry.results[Len(retry.results)]))
                 => retry.thrown = AsError(retry.results[Len(retry.results)])

\* C35: retryWithBackoff invokes fn at most maxRetries + 1 times and always
\* terminates: it returns the first success without invoking fn again, it
\* rethrows an LLMError with status 401 or 403 at once, and after
\* maxRetries + 1 failed attempts it throws the last error.
C35_RetryBoundedAndTerminates ==
    /\ []RetrySafety
    /\ (retry.at # "idle") ~> (retry.at \in {"returned", "threw"})

\* three failed attempts with maxRetries = 2, the last error thrown as an Error
C35_Witness ==
    /\ retry.at = "threw"
    /\ retry.maxRetries = 2
    /\ retry.calls = 3
    /\ Len(retry.results) = 3
    /\ retry.results[3].class = "string"
    /\ retry.thrown = [class |-> "Error", statusCode |-> 0]

\* the requests recorded in the last minute
RecentRequests == Len(SelectSeq(limiter.requests, LAMBDA t : t > limiter.now - WindowTicks))

\* C39: canRequest returns allowed = false while the requests recorded in the
\* last minute number at least maxRequestsPerMinute or the cost accumulated in
\* the running day is at least the daily limit; and once the reset time has
\* passed it returns allowed = true again (the rate permitting) even if no
\* recordRequest was made since.
C39_CostBlockIsNotPermanent ==
    [][limiter'.checks # limiter.checks =>
          /\ (\/ RecentRequests >= limiter.maxRequests
              \/ (limiter.totalCost >= limiter.maxDailyCost /\ limiter.now <= limiter.costResetAt))
             => limiter'.check # "allowed"
          /\ (limiter.now > limiter.costResetAt /\ RecentRequests < limiter.maxRequests)
             => limiter'.check = "allowed"]_vars

\* the first half of C39 alone, which the code satisfies
CanRequestBlocksAtLimit ==
    [][limiter'.checks # limiter.checks =>
          (limiter'.check = "allowed" <=>
              (RecentRequests < limiter.maxRequests /\ limiter.totalCost < limiter.maxDailyCost))]_vars

RunEnds(r) ==
    /\ runs[r].at \notin {"returned", "threw"}
    /\ runs'[r].at \in {"returned", "threw"}

\* plan p has a final status, a completion time and no step left running
TerminalPlan(p) ==
    /\ plans'[p].status \in FinalStatuses
    /\ plans'[p].completedAt
    /\ \A k \in 1..Len(plans'[p].steps) : plans'[p].steps[k].status # "running"

\* C37: when an executeTask call on the tracked plan ends, returning or
\* failing, the plan is completed, failed or cancelled, its completedAt is set
\* and none of its steps is left running, also when the progress callback or
\* a tool executor throws.
C37_EndedTaskIsTerminal ==
    [][\A r \in 1..MaxRuns : RunEnds(r) => TerminalPlan(runs'[r].plan)]_vars

====
